---------------------------- MODULE Spec2Model ----------------------------
(***************************************************************************)
(* AgriTrack crop-residue core: HarvestPredictor, HarvestScheduler and     *)
(* MachineAllocator (src/services/crop-residue).                           *)
(*                                                                         *)
(* Conventions of the model                                                *)
(*   - an Optional value is a sequence: <<>> is None, <<v>> is the value v *)
(*   - NDVI values are integers in units of 1e-4 (round(.., 4) in the code)*)
(*     and slopes integers in units of 1e-6 per day (round(.., 6))         *)
(*   - Python dict objects that are shared by reference (machine records)  *)
(*     live in `heap`; a list of them is a sequence of heap indices        *)
(*   - latitudes are whole degrees on one meridian, distances are in       *)
(*     hundredths of a kilometre (round(.., 2))                            *)
(***************************************************************************)
EXTENDS Integers, Sequences, FiniteSets, TLC

VARIABLES
    heap,          \* the machine dict objects, by reference
    caller,        \* what the caller holds: its machine list, prediction list, and
                   \* the field values its machine records had when it passed them in
    allocator,     \* the MachineAllocator object's fields
    apc,           \* where the allocator's caller is: "new", "idle", "loop" (+ loop index),
                   \* "raised" (allocate_machines raised an exception to it); the
                   \* number of runs made, and how many machines were available
                   \* when the last run began
    nearest,       \* the call of find_nearest_available_machine the last step made,
                   \* if it made one: its arguments and the value it returned
    asummary,      \* the value of get_allocation_summary, if the last step called it
    pair,          \* two MachineAllocator objects built from the one caller roster:
                   \* for each its prediction argument, its fields, and where its
                   \* run is ("new", "idle", "loop" + loop index, "done")
    now,           \* datetime.now(), in ticks (TicksPerDay ticks to a day)
    predictor,     \* the HarvestPredictor object's fields
    presult,       \* the predictor's last call and the value it returned
    sinput,        \* what the scheduler's caller passes: predictions, machines, farmers
    scheduler,     \* the HarvestScheduler object's fields
    spc,           \* where the scheduler's caller is: "new", "ready", "clustered",
                   \* "assigned"
    projection     \* the projection of the scheduler the last step called, if it called
                   \* one, and the value it returned

varsAlloc == <<heap, caller, allocator, apc, nearest, asummary, pair>>
varsPredict == <<predictor, presult>>
varsSched == <<sinput, scheduler, spc, projection>>
vars == <<heap, caller, allocator, apc, nearest, asummary, pair, now, predictor, presult,
          sinput, scheduler, spc, projection>>

(***************************************************************************)
(* Bounds of the model                                                     *)
(***************************************************************************)
MaxMachines == 2
MaxPredictions == 2
MaxRuns == 2

MachineIds == <<"HS_001", "BL_001", "SMS_001", "RT_001">>
MachineTypes == {"Happy Seeder", "Baler"}
MachineLats == {0, 2}
DistrictIds == <<"PB_001", "PB_002", "HR_001", "HR_002">>
DistrictLats == {0, 1}
AllocPriorities == {3, 9}

(***************************************************************************)
(* Generic helpers                                                         *)
(***************************************************************************)
Range(s) == {s[i] : i \in 1..Len(s)}

Abs(x) == IF x < 0 THEN -x ELSE x

Min(a, b) == IF a <= b THEN a ELSE b

Max(a, b) == IF a >= b THEN a ELSE b

\* [f(x) for x in s if keep(x)] the subsequence of s whose elements are in keep
RECURSIVE FilterSeq(_, _)
FilterSeq(s, keep) ==
    IF s = <<>> THEN <<>>
    ELSE IF Head(s) \in keep THEN <<Head(s)>> \o FilterSeq(Tail(s), keep)
    ELSE FilterSeq(Tail(s), keep)

\* a / b rounded to the nearest integer, ties to the even one (Python's round), b > 0
RoundHalfEven(a, b) ==
    LET q == a \div b
        r == a - q * b
    IN IF 2 * r < b THEN q
       ELSE IF 2 * r > b THEN q + 1
       ELSE IF q % 2 = 0 THEN q ELSE q + 1

RECURSIVE SumOver(_, _)
SumOver(f, n) == IF n = 0 THEN 0 ELSE f[n] + SumOver(f, n - 1)

(***************************************************************************)
(* MachineAllocator                                                        *)
(***************************************************************************)

\* m.get('available', True): a record without the key counts as available
GetAvailable(m) == IF m.has_available THEN m.available ELSE TRUE

\* 6371 * pi / 180 kilometres per degree of latitude, in 1e-4 km
ArcPerDegree == 1111949

\* haversine_distance for two points on one meridian: R * |dlat| in radians,
\* rounded to two decimals (hundredths of a kilometre)
haversine_distance(lat1, lat2) == (ArcPerDegree * Abs(lat2 - lat1) + 50) \div 100

\* sorted(predictions, key=priority_score, reverse=True): stable, so predictions of
\* equal priority keep the order they had in the input
RECURSIVE InsertByPriority(_, _)
InsertByPriority(sorted, p) ==
    IF sorted = <<>> THEN <<p>>
    ELSE IF Head(sorted).priority_score >= p.priority_score
         THEN <<Head(sorted)>> \o InsertByPriority(Tail(sorted), p)
         ELSE <<p>> \o sorted

\* a variant of the sort that leaves the predictions in the order given
SortByPriorityDesc_Keep(s) == s

RECURSIVE SortByPriorityDesc(_)
SortByPriorityDesc(s) ==
    IF s = <<>> THEN <<>>
    ELSE InsertByPriority(SortByPriorityDesc(SubSeq(s, 1, Len(s) - 1)), s[Len(s)])

\* a variant of the roster copy that keeps the caller's own dict objects
CopyMachines_Alias(h, roster) == [heap |-> h, refs |-> roster]

\* [m.copy() for m in machines]: a new dict object per machine, in roster order
CopyMachines(h, roster) ==
    [heap |-> h \o [i \in 1..Len(roster) |-> h[roster[i]]],
     refs |-> [i \in 1..Len(roster) |-> Len(h) + i]]

\* a variant that does not narrow the available machines to the preferred type
Candidates_AnyType(h, refs, preferred_type) ==
    FilterSeq(refs, {r \in Range(refs) : GetAvailable(h[r])})

\* the available machines of self.machines, in roster order, narrowed to the
\* preferred type when one is given and some available machine has it
Candidates(h, refs, preferred_type) ==
    LET available_machines == FilterSeq(refs, {r \in Range(refs) : GetAvailable(h[r])})
        typed_machines ==
            IF preferred_type = <<>> THEN <<>>
            ELSE FilterSeq(available_machines,
                           {r \in Range(refs) : h[r].type = preferred_type[1]})
    IN IF typed_machines # <<>> THEN typed_machines ELSE available_machines

\* a variant that takes the first candidate in roster order, whatever its distance
NearestOf_First(h, cands, lat) == cands[1]

\* machine_distances.sort(key=distance)[0]: the first candidate, in roster order,
\* of minimal distance (list.sort is stable)
RECURSIVE NearestOf(_, _, _)
NearestOf(h, cands, lat) ==
    IF Len(cands) = 1 THEN cands[1]
    ELSE LET best == NearestOf(h, SubSeq(cands, 1, Len(cands) - 1), lat)
             last == cands[Len(cands)]
         IN IF haversine_distance(lat, h[last].lat) < haversine_distance(lat, h[best].lat)
            THEN last ELSE best

\* find_nearest_available_machine: None, or (machine, distance)
find_nearest_available_machine(h, refs, district_lat, preferred_type) ==
    LET cands == Candidates(h, refs, preferred_type)
    IN IF cands = <<>> THEN <<>>
       ELSE LET r == NearestOf(h, cands, district_lat)
            IN <<[machine |-> r, distance |-> haversine_distance(district_lat, h[r].lat)]>>

\* machine['lat'], machine['lon'] of find_nearest_available_machine raise KeyError:
\* one of the available machines has no coordinates
RaisesKeyError(h, refs, preferred_type) ==
    \E r \in Range(Candidates(h, refs, preferred_type)) : "lat" \notin DOMAIN h[r]

\* a variant of the marking loop that leaves the machine available
MarkUnavailable_Skip(h, refs, id) == h

\* for m in self.machines: if m['id'] == id: m['available'] = False; break
MarkUnavailable(h, refs, id) ==
    LET hits == {i \in 1..Len(refs) : h[refs[i]].id = id}
    IN IF hits = {} THEN h
       ELSE LET first == CHOOSE i \in hits : \A j \in hits : i <= j
            IN [h EXCEPT ![refs[first]] =
                    [@ EXCEPT !.has_available = TRUE, !.available = FALSE]]

\* a variant of the no-machine branch that records nothing
RecordUnallocated_Drop(unallocated, p) == unallocated

\* a variant that records the district without a reason
RecordUnallocated_NoReason(unallocated, p) ==
    Append(unallocated, [district_id |-> p.district_id,
                         priority_score |-> p.priority_score,
                         reason |-> ""])

\* self.unallocated_districts.append({...})
RecordUnallocated(unallocated, p) ==
    Append(unallocated, [district_id |-> p.district_id,
                         priority_score |-> p.priority_score,
                         reason |-> "No available machines"])

\* self.allocations.append(allocation)
RecordAllocation(allocations, p, h, found) ==
    Append(allocations, [district_id |-> p.district_id,
                         priority_score |-> p.priority_score,
                         machine_id |-> h[found.machine].id,
                         machine_type |-> h[found.machine].type,
                         distance_km |-> found.distance])

\* allocate_machines as one call: the passes of its loop over the first k
\* predictions of self, begun on the machine objects h with both result lists empty
RECURSIVE AllocateLoop(_, _, _)
AllocateLoop(h, self, k) ==
    IF k = 0 THEN [heap |-> h, allocations |-> <<>>, unallocated_districts |-> <<>>]
    ELSE LET before == AllocateLoop(h, self, k - 1)
             prediction == self.predictions[k]
             result == find_nearest_available_machine(before.heap, self.machines,
                                                      prediction.lat, <<>>)
         IN IF result = <<>>
            THEN [before EXCEPT !.unallocated_districts =
                                    RecordUnallocated(@, prediction)]
            ELSE [heap |-> MarkUnavailable(before.heap, self.machines,
                                           before.heap[result[1].machine].id),
                  allocations |-> RecordAllocation(before.allocations, prediction,
                                                   before.heap, result[1]),
                  unallocated_districts |-> before.unallocated_districts]

\* if not self.allocations and not self.unallocated_districts: self.allocate_machines()
SummaryRuns(self) == self.allocations = <<>> /\ self.unallocated_districts = <<>>

\* a variant that counts the machines of the roster, available or not
MachinesRemaining_All(h, self) == Len(self.machines)

\* len([m for m in self.machines if m.get('available', True)])
MachinesRemaining(h, self) ==
    Cardinality({i \in 1..Len(self.machines) : GetAvailable(h[self.machines[i]])})

\* the dict get_allocation_summary returns (the averages of distance and ETA left
\* out); allocation_rate is in tenths of a percent
SummaryOf(h, self) ==
    LET total_districts == Len(self.predictions)
        allocated == Len(self.allocations)
    IN [total_districts |-> total_districts,
        districts_allocated |-> allocated,
        districts_unallocated |-> Len(self.unallocated_districts),
        allocation_rate |-> IF total_districts > 0
                            THEN RoundHalfEven(allocated * 1000, total_districts) ELSE 0,
        total_travel_distance_km |->
            SumOver([i \in 1..allocated |-> self.allocations[i].distance_km], allocated),
        machines_used_by_type |->
            [mt \in {self.allocations[i].machine_type : i \in 1..allocated} |->
                Cardinality({i \in 1..allocated : self.allocations[i].machine_type = mt})],
        machines_remaining |-> MachinesRemaining(h, self)]

(***************************************************************************)
(* The inputs of an allocation run                                         *)
(***************************************************************************)
Availabilities ==
    {[has_available |-> TRUE, available |-> TRUE],
     [has_available |-> TRUE, available |-> FALSE],
     [has_available |-> FALSE, available |-> FALSE]}

\* the machine records the i-th roster entry may be (ids are unique in a roster)
MachineRecords(i) ==
    {[id |-> MachineIds[i], type |-> t, lat |-> l,
      has_available |-> a.has_available, available |-> a.available] :
        t \in MachineTypes, l \in MachineLats, a \in Availabilities}

RECURSIVE RostersOfLen(_)
RostersOfLen(n) ==
    IF n = 0 THEN {<<>>}
    ELSE {Append(r, m) : r \in RostersOfLen(n - 1), m \in MachineRecords(n)}

Rosters == UNION {RostersOfLen(n) : n \in 0..MaxMachines}

\* the Prediction records the allocator reads (district ids are unique in a list)
AllocPredictionRecords(i) ==
    {[district_id |-> DistrictIds[i], lat |-> l, priority_score |-> s] :
        l \in DistrictLats, s \in AllocPriorities}

RECURSIVE PredictionListsOfLen(_)
PredictionListsOfLen(n) ==
    IF n = 0 THEN {<<>>}
    ELSE {Append(ps, p) : ps \in PredictionListsOfLen(n - 1), p \in AllocPredictionRecords(n)}

PredictionLists == UNION {PredictionListsOfLen(n) : n \in 0..MaxPredictions}

IdlePredictor == [ndvi_data |-> <<>>, predictions |-> <<>>]

IdleResult == [op |-> "none"]

NoSchedulerInput == [predictions |-> <<>>, machines |-> <<>>, farmers |-> <<>>]

NoScheduler ==
    [predictions |-> <<>>, machines |-> <<>>, farmers |-> <<>>,
     clusters |-> <<>>, schedules |-> <<>>, district_prediction_map |-> <<>>]

NoAllocator ==
    [machines |-> <<>>, predictions |-> <<>>,
     allocations |-> <<>>, unallocated_districts |-> <<>>]

\* the last step did not call find_nearest_available_machine
NoCall == [called |-> FALSE, district_lat |-> 0, preferred_type |-> <<>>, value |-> <<>>]

\* the last step called no projection of the scheduler
NoProjection == [op |-> "none", value |-> <<>>]

\* no pair of allocators is being run
NoPair == <<>>

\* the preferred_type arguments of a call: None, or a machine type
PreferredTypes == {<<>>} \cup {<<t>> : t \in MachineTypes}

\* The caller holds a roster and a prediction list; no allocator exists yet
InitAlloc ==
    /\ \E roster \in Rosters, preds \in PredictionLists :
          /\ heap = roster
          /\ caller = [machines |-> [i \in 1..Len(roster) |-> i],
                       predictions |-> preds,
                       roster0 |-> roster]
    /\ allocator = NoAllocator
    /\ apc = [at |-> "new", i |-> 0, runs |-> 0, available0 |-> 0]
    /\ nearest = NoCall
    /\ asummary = <<>>
    /\ pair = NoPair
    /\ now = 0
    /\ predictor = IdlePredictor
    /\ presult = IdleResult
    /\ sinput = NoSchedulerInput
    /\ scheduler = NoScheduler
    /\ spc = "none"
    /\ projection = NoProjection

(***************************************************************************)
(* MachineAllocator: the operations                                        *)
(***************************************************************************)

\* MachineAllocator(machines, predictions)
Construct ==
    /\ apc.at = "new"
    /\ LET copy == CopyMachines(heap, caller.machines)
       IN /\ heap' = copy.heap
          /\ allocator' = [machines |-> copy.refs,
                           predictions |-> SortByPriorityDesc(caller.predictions),
                           allocations |-> <<>>,
                           unallocated_districts |-> <<>>]
    /\ apc' = [apc EXCEPT !.at = "idle"]
    /\ nearest' = NoCall
    /\ asummary' = <<>>
    /\ UNCHANGED <<caller, pair, now, varsPredict, varsSched>>

\* allocate_machines(): entry, the two result lists are emptied
AllocateBegin ==
    /\ apc.at = "idle"
    /\ apc.runs < MaxRuns
    /\ allocator' = [allocator EXCEPT !.allocations = <<>>,
                                      !.unallocated_districts = <<>>]
    /\ apc' = [apc EXCEPT !.at = "loop", !.i = 1,
                          !.available0 = MachinesRemaining(heap, allocator)]
    /\ nearest' = NoCall
    /\ asummary' = <<>>
    /\ UNCHANGED <<heap, caller, pair, now, varsPredict, varsSched>>

\* allocate_machines(): one pass of `for prediction in self.predictions`; a KeyError
\* of find_nearest_available_machine ends the call ("raised")
AllocateStep ==
    /\ apc.at = "loop"
    /\ apc.i <= Len(allocator.predictions)
    /\ asummary' = <<>>
    /\ IF RaisesKeyError(heap, allocator.machines, <<>>)
       THEN /\ apc' = [apc EXCEPT !.at = "raised"]
            /\ nearest' = NoCall
            /\ UNCHANGED <<heap, allocator>>
       ELSE LET prediction == allocator.predictions[apc.i]
                result == find_nearest_available_machine(heap, allocator.machines,
                                                         prediction.lat, <<>>)
            IN /\ nearest' = [called |-> TRUE, district_lat |-> prediction.lat,
                              preferred_type |-> <<>>, value |-> result]
               /\ IF result = <<>>
                  THEN /\ allocator' = [allocator EXCEPT !.unallocated_districts =
                                            RecordUnallocated(@, prediction)]
                       /\ heap' = heap
                  ELSE /\ allocator' = [allocator EXCEPT !.allocations =
                                            RecordAllocation(@, prediction, heap, result[1])]
                       /\ heap' = MarkUnavailable(heap, allocator.machines,
                                                  heap[result[1].machine].id)
               /\ apc' = [apc EXCEPT !.i = @ + 1]
    /\ UNCHANGED <<caller, pair, now, varsPredict, varsSched>>

\* allocate_machines(): the loop is over, return self.allocations
AllocateReturn ==
    /\ apc.at = "loop"
    /\ apc.i > Len(allocator.predictions)
    /\ apc' = [apc EXCEPT !.at = "idle", !.runs = @ + 1]
    /\ nearest' = NoCall
    /\ asummary' = <<>>
    /\ UNCHANGED <<heap, caller, allocator, pair, now, varsPredict, varsSched>>

\* allocator.find_nearest_available_machine(lat, lon, preferred_type), called by the
\* allocator's owner on the roster as constructed
FindNearest ==
    /\ apc.at = "idle"
    /\ apc.runs = 0
    /\ \E district_lat \in DistrictLats, preferred_type \in PreferredTypes :
          nearest' = [called |-> TRUE, district_lat |-> district_lat,
                      preferred_type |-> preferred_type,
                      value |-> find_nearest_available_machine(
                                    heap, allocator.machines, district_lat, preferred_type)]
    /\ asummary' = <<>>
    /\ UNCHANGED <<heap, caller, allocator, apc, pair, now, varsPredict, varsSched>>

\* allocator.get_allocation_summary(): with both result lists empty it first makes a
\* whole call of allocate_machines
GetAllocationSummary ==
    /\ apc.at = "idle"
    /\ SummaryRuns(allocator) => apc.runs < MaxRuns
    /\ LET ran == IF SummaryRuns(allocator)
                  THEN AllocateLoop(heap, allocator, Len(allocator.predictions))
                  ELSE [heap |-> heap, allocations |-> allocator.allocations,
                        unallocated_districts |-> allocator.unallocated_districts]
           self == [allocator EXCEPT !.allocations = ran.allocations,
                                     !.unallocated_districts = ran.unallocated_districts]
       IN /\ heap' = ran.heap
          /\ allocator' = self
          /\ asummary' = <<SummaryOf(ran.heap, self)>>
    /\ apc' = [apc EXCEPT !.runs = IF SummaryRuns(allocator) THEN @ + 1 ELSE @,
                          !.available0 = IF SummaryRuns(allocator)
                                         THEN MachinesRemaining(heap, allocator) ELSE @]
    /\ nearest' = NoCall
    /\ UNCHANGED <<caller, pair, now, varsPredict, varsSched>>

NextAlloc ==
    Construct \/ AllocateBegin \/ AllocateStep \/ AllocateReturn \/ FindNearest

SpecAlloc == InitAlloc /\ [][NextAlloc]_vars

(***************************************************************************)
(* Two MachineAllocator objects on one caller roster.  The caller builds   *)
(* both from the same machine list, each with its own prediction list, and *)
(* runs allocate_machines once on each; the passes of the two loops        *)
(* interleave in every order.                                              *)
(***************************************************************************)
MaxPairMachines == 2
MaxPairPredictions == 2

\* the rosters the pair is built from: machines of one type (allocate_machines
\* passes no preferred type) whose records carry the available flag
RECURSIVE PairRostersOfLen(_)
PairRostersOfLen(n) ==
    IF n = 0 THEN {<<>>}
    ELSE {Append(r, m) : r \in PairRostersOfLen(n - 1),
                         m \in {x \in MachineRecords(n) :
                                 x.type = "Happy Seeder" /\ x.has_available}}

PairRosters == UNION {PairRostersOfLen(n) : n \in 0..MaxPairMachines}

\* the prediction lists of the pair: the urgencies alternate along the list, so
\* that the constructor's sort reorders it
RECURSIVE PairPredictionListsOfLen(_)
PairPredictionListsOfLen(n) ==
    IF n = 0 THEN {<<>>}
    ELSE {Append(ps, p) :
            ps \in PairPredictionListsOfLen(n - 1),
            p \in {x \in AllocPredictionRecords(n) :
                      x.priority_score = IF n % 2 = 1 THEN 3 ELSE 9}}

PairPredictionLists == UNION {PairPredictionListsOfLen(n) : n \in 0..MaxPairPredictions}

\* an allocator of the pair before its construction, with the prediction list the
\* caller will pass to it
NewOfPair(preds) ==
    [arg |-> preds, at |-> "new", i |-> 0,
     machines |-> <<>>, predictions |-> <<>>,
     allocations |-> <<>>, unallocated_districts |-> <<>>]

InitAllocPair ==
    /\ \E roster \in PairRosters, preds1 \in PairPredictionLists,
          preds2 \in PairPredictionLists :
          /\ heap = roster
          /\ caller = [machines |-> [i \in 1..Len(roster) |-> i],
                       predictions |-> <<>>,
                       roster0 |-> roster]
          /\ pair = <<NewOfPair(preds1), NewOfPair(preds2)>>
    /\ allocator = NoAllocator
    /\ apc = [at |-> "none", i |-> 0, runs |-> 0, available0 |-> 0]
    /\ nearest = NoCall
    /\ asummary = <<>>
    /\ now = 0
    /\ predictor = IdlePredictor
    /\ presult = IdleResult
    /\ sinput = NoSchedulerInput
    /\ scheduler = NoScheduler
    /\ spc = "none"
    /\ projection = NoProjection

\* MachineAllocator(machines, predictions), for one allocator of the pair
PairConstruct ==
    /\ \E k \in 1..2 :
          /\ pair[k].at = "new"
          /\ LET copy == CopyMachines(heap, caller.machines)
             IN /\ heap' = copy.heap
                /\ pair' = [pair EXCEPT ![k] =
                               [arg |-> pair[k].arg, at |-> "idle", i |-> 0,
                                machines |-> copy.refs,
                                predictions |-> SortByPriorityDesc(pair[k].arg),
                                allocations |-> <<>>,
                                unallocated_districts |-> <<>>]]
    /\ UNCHANGED <<caller, allocator, apc, nearest, asummary, now, varsPredict, varsSched>>

\* allocate_machines() of one allocator of the pair: entry
PairAllocateBegin ==
    /\ \E k \in 1..2 :
          /\ pair[k].at = "idle"
          /\ pair' = [pair EXCEPT ![k].allocations = <<>>,
                                  ![k].unallocated_districts = <<>>,
                                  ![k].at = "loop",
                                  ![k].i = 1]
    /\ UNCHANGED <<heap, caller, allocator, apc, nearest, asummary, now, varsPredict,
                   varsSched>>

\* allocate_machines() of one allocator of the pair: one pass of the loop
PairAllocateStep ==
    /\ \E k \in 1..2 :
          /\ pair[k].at = "loop"
          /\ pair[k].i <= Len(pair[k].predictions)
          /\ LET self == pair[k]
                 prediction == self.predictions[self.i]
                 result == find_nearest_available_machine(heap, self.machines,
                                                          prediction.lat, <<>>)
             IN IF result = <<>>
                THEN /\ pair' = [pair EXCEPT ![k].unallocated_districts =
                                                 RecordUnallocated(@, prediction),
                                             ![k].i = @ + 1]
                     /\ heap' = heap
                ELSE /\ pair' = [pair EXCEPT ![k].allocations =
                                                 RecordAllocation(@, prediction, heap,
                                                                  result[1]),
                                             ![k].i = @ + 1]
                     /\ heap' = MarkUnavailable(heap, self.machines,
                                                heap[result[1].machine].id)
    /\ UNCHANGED <<caller, allocator, apc, nearest, asummary, now, varsPredict, varsSched>>

\* allocate_machines() of one allocator of the pair: the loop is over
PairAllocateReturn ==
    /\ \E k \in 1..2 :
          /\ pair[k].at = "loop"
          /\ pair[k].i > Len(pair[k].predictions)
          /\ pair' = [pair EXCEPT ![k].at = "done"]
    /\ UNCHANGED <<heap, caller, allocator, apc, nearest, asummary, now, varsPredict,
                   varsSched>>

NextAllocPair == PairConstruct \/ PairAllocateBegin \/ PairAllocateStep \/ PairAllocateReturn

SpecAllocPair == InitAllocPair /\ [][NextAllocPair]_vars

(***************************************************************************)
(* The allocator with its summary: the rosters are short and the           *)
(* prediction lists those of the pair, so that get_allocation_summary can  *)
(* be called between the runs and after them.                              *)
(***************************************************************************)
MaxSummaryMachines == 2

SummaryRosters == UNION {RostersOfLen(n) : n \in 0..MaxSummaryMachines}

InitAllocSummary ==
    /\ \E roster \in SummaryRosters, preds \in PairPredictionLists :
          /\ heap = roster
          /\ caller = [machines |-> [i \in 1..Len(roster) |-> i],
                       predictions |-> preds,
                       roster0 |-> roster]
    /\ allocator = NoAllocator
    /\ apc = [at |-> "new", i |-> 0, runs |-> 0, available0 |-> 0]
    /\ nearest = NoCall
    /\ asummary = <<>>
    /\ pair = NoPair
    /\ now = 0
    /\ predictor = IdlePredictor
    /\ presult = IdleResult
    /\ sinput = NoSchedulerInput
    /\ scheduler = NoScheduler
    /\ spc = "none"
    /\ projection = NoProjection

NextAllocSummary ==
    Construct \/ AllocateBegin \/ AllocateStep \/ AllocateReturn \/ GetAllocationSummary

SpecAllocSummary == InitAllocSummary /\ [][NextAllocSummary]_vars

(***************************************************************************)
(* Allocation runs on rosters in which machine records may lack their      *)
(* coordinates (the keys 'lat' and 'lon')                                  *)
(***************************************************************************)
MaxMalformedMachines == 2

\* the i-th machine record with its coordinates, and without them
MaybeMalformedRecords(i) ==
    LET full == {x \in MachineRecords(i) : x.type = "Happy Seeder" /\ x.has_available}
    IN full \cup {[id |-> x.id, type |-> x.type, has_available |-> x.has_available,
                   available |-> x.available] : x \in full}

RECURSIVE MaybeMalformedRostersOfLen(_)
MaybeMalformedRostersOfLen(n) ==
    IF n = 0 THEN {<<>>}
    ELSE {Append(r, m) : r \in MaybeMalformedRostersOfLen(n - 1),
                         m \in MaybeMalformedRecords(n)}

InitAllocMalformed ==
    /\ \E n \in 0..MaxMalformedMachines :
          \E roster \in MaybeMalformedRostersOfLen(n), preds \in PairPredictionLists :
             /\ heap = roster
             /\ caller = [machines |-> [i \in 1..Len(roster) |-> i],
                          predictions |-> preds,
                          roster0 |-> roster]
    /\ allocator = NoAllocator
    /\ apc = [at |-> "new", i |-> 0, runs |-> 0, available0 |-> 0]
    /\ nearest = NoCall
    /\ asummary = <<>>
    /\ pair = NoPair
    /\ now = 0
    /\ predictor = IdlePredictor
    /\ presult = IdleResult
    /\ sinput = NoSchedulerInput
    /\ scheduler = NoScheduler
    /\ spc = "none"
    /\ projection = NoProjection

NextAllocMalformed == Construct \/ AllocateBegin \/ AllocateStep \/ AllocateReturn

SpecAllocMalformed == InitAllocMalformed /\ [][NextAllocMalformed]_vars

(***************************************************************************)
(* HarvestPredictor                                                        *)
(*                                                                         *)
(* np.polyfit is computed over the rationals.  The code divides in double  *)
(* precision: a quotient that is a whole number q over the rationals may   *)
(* come out just below q, and int() then gives q - 1; FloatSlack is that   *)
(* choice.                                                                 *)
(***************************************************************************)
HARVEST_THRESHOLD == 4000
MIN_DATA_DAYS == 7
TicksPerDay == 2
MaxReadings == 8
Today == 10

\* int(a / b): the quotient truncated toward zero, b # 0
IntTrunc(a, b) ==
    LET q == Abs(a) \div Abs(b)
    IN IF (a < 0) = (b < 0) THEN q ELSE -q

\* dt.strftime("%Y-%m-%d"): the day of a datetime, its time of day dropped
strftime(dt) == dt \div TicksPerDay

\* datetime.strptime(s, '%Y-%m-%d'): midnight of the day
strptime(day) == day * TicksPerDay

\* dt + timedelta(days=n)
PlusDays(dt, n) == dt + n * TicksPerDay

\* self.ndvi_data[self.ndvi_data['district_id'] == district_id]: the district's rows
RowsOf(ndvi_data, district_id) ==
    LET blocks == {i \in 1..Len(ndvi_data) : ndvi_data[i].district_id = district_id}
    IN IF blocks = {} THEN <<>> ELSE ndvi_data[CHOOSE i \in blocks : TRUE].rows

\* the district's name/state/lat/lon columns
InfoOf(ndvi_data, district_id) ==
    ndvi_data[CHOOSE i \in 1..Len(ndvi_data) : ndvi_data[i].district_id = district_id]

\* district_data.sort_values('date')
RECURSIVE InsertByDate(_, _)
InsertByDate(sorted, row) ==
    IF sorted = <<>> THEN <<row>>
    ELSE IF Head(sorted).day <= row.day
         THEN <<Head(sorted)>> \o InsertByDate(Tail(sorted), row)
         ELSE <<row>> \o sorted

RECURSIVE SortByDate(_)
SortByDate(rows) ==
    IF rows = <<>> THEN <<>>
    ELSE InsertByDate(SortByDate(SubSeq(rows, 1, Len(rows) - 1)), rows[Len(rows)])

\* a variant of the length check that also rejects exactly MIN_DATA_DAYS readings
InsufficientData_OffByOne(district_data) == Len(district_data) <= MIN_DATA_DAYS

\* len(district_data) < self.MIN_DATA_DAYS
InsufficientData(district_data) == Len(district_data) < MIN_DATA_DAYS

\* np.polyfit(x, y, 1)[0] as the fraction num / den of the least-squares slope,
\* x the day numbers since the first date, y the NDVI values (1e-4)
PolyfitSlope(district_data) ==
    LET n == Len(district_data)
        first == district_data[1].day
        x == [i \in 1..n |-> district_data[i].day - first]
        y == [i \in 1..n |-> district_data[i].ndvi]
        sx == SumOver(x, n)
        sy == SumOver(y, n)
        sxy == SumOver([i \in 1..n |-> x[i] * y[i]], n)
        sxx == SumOver([i \in 1..n |-> x[i] * x[i]], n)
    IN [num |-> n * sxy - sx * sy, den |-> n * sxx - sx * sx]

\* "declining" if slope < -0.005 else "stable" if abs(slope) < 0.005 else "increasing"
\* (slope = num / den in 1e-4 per day, den > 0; 0.005 is 50 of these units)
TrendOf(slope) ==
    IF slope.num < -50 * slope.den THEN "declining"
    ELSE IF Abs(slope.num) < 50 * slope.den THEN "stable"
    ELSE "increasing"

\* calculate_ndvi_decline_rate: {"error": ...} or the analysis dict
calculate_ndvi_decline_rate(ndvi_data, district_id) ==
    LET district_data == SortByDate(RowsOf(ndvi_data, district_id))
    IN IF InsufficientData(district_data) THEN [error |-> TRUE]
       ELSE LET slope == PolyfitSlope(district_data)
            IN [error |-> FALSE,
                decline_rate_per_day |-> RoundHalfEven(100 * slope.num, slope.den),
                current_ndvi |-> district_data[Len(district_data)].ndvi,
                start_ndvi |-> district_data[1].ndvi,
                total_days |-> Len(district_data),
                trend |-> TrendOf(slope)]

\* a variant of the final clamp without its lower end
ClampScore_NoFloor(score) == Min(10, score)

\* max(1, min(10, score))
ClampScore(score) == Max(1, Min(10, score))

\* _calculate_priority_score
calculate_priority_score(current_ndvi, decline_rate, days_to_harvest) ==
    LET f1 == IF current_ndvi <= 3500 THEN 4
              ELSE IF current_ndvi <= 4500 THEN 3
              ELSE IF current_ndvi <= 5500 THEN 2
              ELSE IF current_ndvi <= 6500 THEN 1
              ELSE 0
        f2 == IF decline_rate <= -20000 THEN 3
              ELSE IF decline_rate <= -15000 THEN 2
              ELSE IF decline_rate <= -10000 THEN 1
              ELSE 0
        f3 == IF days_to_harvest = <<>> THEN 0
              ELSE IF days_to_harvest[1] <= 3 THEN 3
              ELSE IF days_to_harvest[1] <= 7 THEN 2
              ELSE IF days_to_harvest[1] <= 14 THEN 1
              ELSE 0
    IN ClampScore(f1 + f2 + f3)

\* a variant of the HARVEST_READY branch that sets no date
ReadyDate_None(t) == <<>>

\* predicted_date = datetime.now() in the HARVEST_READY branch
ReadyDate(t) == <<t>>

\* what int() can take off a double quotient whose exact value is a whole number
FloatSlack == 0..1

\* days_to_harvest = max(0, int((HARVEST_THRESHOLD - current_ndvi) / decline_rate)),
\* decline_rate # 0
DaysToThreshold(current_ndvi, decline_rate, slack) ==
    LET num == 100 * (HARVEST_THRESHOLD - current_ndvi)
        q == IntTrunc(num, decline_rate)
    IN Max(0, IF q >= 1 /\ q * decline_rate = num THEN q - slack ELSE q)

\* predict_harvest_date: None, or the prediction dict
predict_harvest_date(ndvi_data, district_id, t, slack) ==
    LET analysis == calculate_ndvi_decline_rate(ndvi_data, district_id)
    IN IF analysis.error THEN <<>>
       ELSE
        LET district_info == InfoOf(ndvi_data, district_id)
            current_ndvi == analysis.current_ndvi
            decline_rate == analysis.decline_rate_per_day
            branch ==
                IF current_ndvi <= HARVEST_THRESHOLD
                THEN [days_to_harvest |-> <<0>>,
                      predicted_date |-> ReadyDate(t),
                      status |-> "HARVEST_READY"]
                ELSE IF decline_rate >= 0
                THEN [days_to_harvest |-> <<>>,
                      predicted_date |-> <<>>,
                      status |-> "NOT_DECLINING"]
                ELSE LET days == DaysToThreshold(current_ndvi, decline_rate, slack)
                     IN [days_to_harvest |-> <<days>>,
                         predicted_date |-> <<PlusDays(t, days)>>,
                         status |-> "PREDICTED"]
        IN <<[district_id |-> district_id,
              lat |-> district_info.lat,
              current_ndvi |-> current_ndvi,
              ndvi_decline_rate |-> decline_rate,
              predicted_harvest_date |->
                  IF branch.predicted_date # <<>>
                  THEN <<strftime(branch.predicted_date[1])>> ELSE <<>>,
              days_until_harvest |-> branch.days_to_harvest,
              priority_score |-> calculate_priority_score(current_ndvi, decline_rate,
                                                          branch.days_to_harvest),
              status |-> branch.status]>>

\* the loop of predict_all_districts over ndvi_data['district_id'].unique(), which
\* lists the districts in the order they first appear in the data
RECURSIVE PredictEach(_, _, _, _)
PredictEach(ndvi_data, k, t, slacks) ==
    IF k = 0 THEN <<>>
    ELSE PredictEach(ndvi_data, k - 1, t, slacks)
            \o predict_harvest_date(ndvi_data, ndvi_data[k].district_id, t, slacks[k])

\* predict_all_districts: the predictions, sorted by priority_score descending
predict_all_districts(ndvi_data, t, slacks) ==
    SortByPriorityDesc(PredictEach(ndvi_data, Len(ndvi_data), t, slacks))

(***************************************************************************)
(* The inputs of a prediction run                                          *)
(***************************************************************************)
PredictDistricts == <<"PB_001", "PB_002">>
Currents == {3000, 4000, 4100, 5000, 6000, 7000}
Deltas == {-200, -150, -100, -50, 0, 50}
Noises == {0, 37}

\* n daily readings ending at `current`, changing by `delta` a day, the third one
\* off the line by `noise`
SeriesOf(current, delta, n, noise) ==
    [i \in 1..n |-> [day |-> Today - n + i,
                     ndvi |-> current - (n - i) * delta + (IF i = 3 THEN noise ELSE 0)]]

LongSeries ==
    {SeriesOf(c, d, n, e) : c \in Currents, d \in Deltas,
                            n \in {MIN_DATA_DAYS, MaxReadings}, e \in Noises}

ShortSeries == {SeriesOf(6000, -200, n, 0) : n \in {1, MIN_DATA_DAYS - 1}}

\* the second district's series: too short, or one of a few long ones
CompanionSeries ==
    ShortSeries \cup {SeriesOf(c, d, MIN_DATA_DAYS, 0) : c \in {4000, 6000}, d \in {-200, 0}}

\* the data frame, one block of rows per district in order of first appearance
InitPredict ==
    /\ \E s1 \in LongSeries \cup ShortSeries, s2 \in CompanionSeries, first \in 1..2 :
          LET b1 == [district_id |-> PredictDistricts[1], lat |-> 0, rows |-> s1]
              b2 == [district_id |-> PredictDistricts[2], lat |-> 1, rows |-> s2]
          IN predictor = [ndvi_data |-> IF first = 1 THEN <<b1, b2>> ELSE <<b2, b1>>,
                          predictions |-> <<>>]
    /\ presult = IdleResult
    /\ now \in {strptime(Today), strptime(Today) + 1}
    /\ heap = <<>>
    /\ caller = [machines |-> <<>>, predictions |-> <<>>, roster0 |-> <<>>]
    /\ allocator = NoAllocator
    /\ apc = [at |-> "none", i |-> 0, runs |-> 0, available0 |-> 0]
    /\ nearest = NoCall
    /\ asummary = <<>>
    /\ pair = NoPair
    /\ sinput = NoSchedulerInput
    /\ scheduler = NoScheduler
    /\ spc = "none"
    /\ projection = NoProjection

(***************************************************************************)
(* HarvestPredictor: the operations                                        *)
(***************************************************************************)

\* predictor.predict_harvest_date(district_id)
PredictHarvestDate ==
    /\ \E k \in 1..Len(predictor.ndvi_data), slack \in FloatSlack :
          LET id == predictor.ndvi_data[k].district_id
          IN presult' = [op |-> "predict_harvest_date", district_id |-> id,
                         value |-> predict_harvest_date(predictor.ndvi_data, id, now,
                                                        slack)]
    /\ UNCHANGED <<predictor, now, varsAlloc, varsSched>>

\* predictor.predict_all_districts()
PredictAllDistricts ==
    /\ \E slacks \in [1..Len(predictor.ndvi_data) -> FloatSlack] :
       LET predictions == predict_all_districts(predictor.ndvi_data, now, slacks)
       IN /\ presult' = [op |-> "predict_all_districts", district_id |-> "",
                         value |-> predictions]
          /\ predictor' = [predictor EXCEPT !.predictions = predictions]
    /\ UNCHANGED <<now, varsAlloc, varsSched>>

\* predictor.calculate_ndvi_decline_rate(district_id)
CalculateNdviDeclineRate ==
    /\ \E k \in 1..Len(predictor.ndvi_data) :
          LET id == predictor.ndvi_data[k].district_id
          IN presult' = [op |-> "calculate_ndvi_decline_rate", district_id |-> id,
                         value |-> calculate_ndvi_decline_rate(predictor.ndvi_data, id)]
    /\ UNCHANGED <<predictor, now, varsAlloc, varsSched>>

NextPredict == PredictHarvestDate \/ PredictAllDistricts \/ CalculateNdviDeclineRate

SpecPredict == InitPredict /\ [][NextPredict]_vars

(***************************************************************************)
(* HarvestScheduler                                                        *)
(*                                                                         *)
(* A date string 'YYYY-MM-DD' is the number of its day; strings of that    *)
(* format compare as their days do.                                        *)
(***************************************************************************)
CLUSTER_WINDOW_DAYS == 5
MIN_MACHINES_PER_CLUSTER == 3
ACRES_PER_MACHINE_PER_DAY == 10
FarFuture == 9999
PRIORITY_ACRES_THRESHOLD == 15
PREMIUM_ACRES_THRESHOLD == 25
MaxSchedUnits == 3
MaxAssigns == 2

\* (x.get('predicted_harvest_date') or '9999-12-31', -x.get('priority_score', 0))
ConstructorKeyLeq(p, q) ==
    LET dp == IF p.predicted_harvest_date # <<>> THEN p.predicted_harvest_date[1]
              ELSE FarFuture
        dq == IF q.predicted_harvest_date # <<>> THEN q.predicted_harvest_date[1]
              ELSE FarFuture
    IN dp < dq \/ (dp = dq /\ -p.priority_score <= -q.priority_score)

\* sorted(predictions, key=...) of __init__ (stable)
RECURSIVE InsertByConstructorKey(_, _)
InsertByConstructorKey(sorted, p) ==
    IF sorted = <<>> THEN <<p>>
    ELSE IF ConstructorKeyLeq(Head(sorted), p)
         THEN <<Head(sorted)>> \o InsertByConstructorKey(Tail(sorted), p)
         ELSE <<p>> \o sorted

RECURSIVE SortByConstructorKey(_)
SortByConstructorKey(s) ==
    IF s = <<>> THEN <<>>
    ELSE InsertByConstructorKey(SortByConstructorKey(SubSeq(s, 1, Len(s) - 1)), s[Len(s)])

\* sorted(valid_predictions, key=lambda x: x['predicted_harvest_date']) (stable)
RECURSIVE InsertByHarvestDate(_, _)
InsertByHarvestDate(sorted, p) ==
    IF sorted = <<>> THEN <<p>>
    ELSE IF Head(sorted).predicted_harvest_date[1] <= p.predicted_harvest_date[1]
         THEN <<Head(sorted)>> \o InsertByHarvestDate(Tail(sorted), p)
         ELSE <<p>> \o sorted

RECURSIVE SortByHarvestDate(_)
SortByHarvestDate(s) ==
    IF s = <<>> THEN <<>>
    ELSE InsertByHarvestDate(SortByHarvestDate(SubSeq(s, 1, Len(s) - 1)), s[Len(s)])

\* a variant of the filter that does not look at the status
IsValidPrediction_AnyStatus(p) == p.predicted_harvest_date # <<>>

\* p.get('predicted_harvest_date') and p.get('status') != 'NOT_DECLINING'
IsValidPrediction(p) ==
    p.predicted_harvest_date # <<>> /\ p.status # "NOT_DECLINING"

\* window_end = current_date + timedelta(days=self.CLUSTER_WINDOW_DAYS)
WindowEnd(current_date) == PlusDays(current_date, CLUSTER_WINDOW_DAYS)

\* a variant that stores the window's exclusive end
StoredWindowEnd_Exclusive(window_end) == window_end

\* window_end=window_end - timedelta(days=1), the end the cluster record keeps
StoredWindowEnd(window_end) == PlusDays(window_end, -1)

\* current_date <= strptime(p['predicted_harvest_date']) < window_end
InWindow(p, current_date, window_end) ==
    /\ current_date <= strptime(p.predicted_harvest_date[1])
    /\ strptime(p.predicted_harvest_date[1]) < window_end

\* sum(f['field_acres'] for f in self.farmers if f['district_id'] == district_id)
RECURSIVE AcresOf(_, _)
AcresOf(farmers, district_id) ==
    IF farmers = <<>> THEN 0
    ELSE (IF Head(farmers).district_id = district_id THEN Head(farmers).field_acres ELSE 0)
         + AcresOf(Tail(farmers), district_id)

RECURSIVE TotalAcres(_, _)
TotalAcres(farmers, districts_in_window) ==
    IF districts_in_window = <<>> THEN 0
    ELSE AcresOf(farmers, Head(districts_in_window).district_id)
         + TotalAcres(farmers, Tail(districts_in_window))

\* max(MIN_MACHINES_PER_CLUSTER, ceil(total_acres / (ACRES_PER_MACHINE_PER_DAY * WINDOW)))
MachinesRequired(total_acres) ==
    LET per_machine == ACRES_PER_MACHINE_PER_DAY * CLUSTER_WINDOW_DAYS
    IN Max(MIN_MACHINES_PER_CLUSTER, (total_acres + per_machine - 1) \div per_machine)

\* len([m for m in self.machines if m.get('status') == 'available'])
AvailableCount(h, machines) ==
    Cardinality({i \in 1..Len(machines) : h[machines[i]].status = <<"available">>})

\* the cluster's status, from now and the window [current_date, window_end)
ClusterStatus(t, current_date, window_end) ==
    IF window_end < t THEN "completed"
    ELSE IF current_date <= t /\ t < window_end THEN "active"
    ELSE "pending"

\* the HarvestCluster built for a non-empty window
MakeCluster(h, self, t, cluster_num, current_date, districts_in_window) ==
    LET n == Len(districts_in_window)
        window_end == WindowEnd(current_date)
        total_acres == TotalAcres(self.farmers, districts_in_window)
        machines_required == MachinesRequired(total_acres)
    IN [id |-> cluster_num,
        district_ids |-> [i \in 1..n |-> districts_in_window[i].district_id],
        window_start |-> current_date,
        window_end |-> StoredWindowEnd(window_end),
        avg_ndvi |-> RoundHalfEven(
            SumOver([i \in 1..n |-> districts_in_window[i].current_ndvi], n), n),
        priority_score |-> RoundHalfEven(
            SumOver([i \in 1..n |-> districts_in_window[i].priority_score], n), n),
        machines_required |-> machines_required,
        machines_allocated |-> Min(machines_required, AvailableCount(h, self.machines)),
        total_acres |-> total_acres,
        farmers |-> <<>>,
        status |-> ClusterStatus(t, current_date, window_end)]

\* the loop `while current_date <= last_date` of create_clusters
RECURSIVE Sweep(_, _, _, _, _, _, _)
Sweep(h, self, t, sorted_preds, current_date, last_date, cluster_num) ==
    IF current_date > last_date THEN <<>>
    ELSE LET window_end == WindowEnd(current_date)
             districts_in_window ==
                 FilterSeq(sorted_preds,
                           {p \in Range(sorted_preds) : InWindow(p, current_date, window_end)})
         IN IF districts_in_window # <<>>
            THEN <<MakeCluster(h, self, t, cluster_num + 1, current_date,
                               districts_in_window)>>
                 \o Sweep(h, self, t, sorted_preds, window_end, last_date, cluster_num + 1)
            ELSE Sweep(h, self, t, sorted_preds, window_end, last_date, cluster_num)

\* create_clusters: the new value of self.clusters
create_clusters(h, self, t) ==
    LET valid_predictions ==
            FilterSeq(self.predictions,
                      {p \in Range(self.predictions) : IsValidPrediction(p)})
    IN IF valid_predictions = <<>> THEN <<>>
       ELSE LET sorted_preds == SortByHarvestDate(valid_predictions)
                first_date == strptime(sorted_preds[1].predicted_harvest_date[1])
                last_date ==
                    strptime(sorted_preds[Len(sorted_preds)].predicted_harvest_date[1])
            IN Sweep(h, self, t, sorted_preds, first_date, last_date, 0)

\* a variant of the map that knows no district
DistrictPredictionMap_Empty(predictions) == [id \in {} |-> <<>>]

\* {p['district_id']: p for p in predictions}: the last prediction of each district
DistrictPredictionMap(predictions) ==
    [id \in {predictions[i].district_id : i \in 1..Len(predictions)} |->
        predictions[CHOOSE i \in 1..Len(predictions) :
                        /\ predictions[i].district_id = id
                        /\ \A j \in 1..Len(predictions) :
                              predictions[j].district_id = id => j <= i]]

\* district_cluster_map: for every member district, the place in self.clusters of
\* the last cluster that lists it
DistrictClusterMap(clusters) ==
    [id \in UNION {Range(clusters[k].district_ids) : k \in 1..Len(clusters)} |->
        CHOOSE k \in 1..Len(clusters) :
            /\ id \in Range(clusters[k].district_ids)
            /\ \A j \in 1..Len(clusters) :
                  id \in Range(clusters[j].district_ids) => j <= k]

\* 'premium' / 'priority' / 'normal' by field size
PriorityLevel(field_acres) ==
    IF field_acres >= PREMIUM_ACRES_THRESHOLD THEN "premium"
    ELSE IF field_acres >= PRIORITY_ACRES_THRESHOLD THEN "priority"
    ELSE "normal"

\* a variant that gives the schedule the day after the cluster's window_end
ScheduleWindowEnd_NextDay(cluster) == PlusDays(cluster.window_end, 1)

\* assigned_window_end=cluster.window_end
ScheduleWindowEnd(cluster) == cluster.window_end

\* cluster.window_start + timedelta(days=2)
FallbackDate(cluster) == PlusDays(cluster.window_start, 2)

\* the FarmerSchedule built for a farmer of a clustered district
MakeSchedule(self, farmer, cluster) ==
    LET known == farmer.district_id \in DOMAIN self.district_prediction_map
        prediction == self.district_prediction_map[farmer.district_id]
    IN [farmer_id |-> farmer.id,
        district_id |-> farmer.district_id,
        field_acres |-> farmer.field_acres,
        current_ndvi |-> IF known THEN prediction.current_ndvi ELSE 5000,
        cluster_id |-> cluster.id,
        assigned_window_start |-> cluster.window_start,
        assigned_window_end |-> ScheduleWindowEnd(cluster),
        optimal_harvest_date |->
            IF known /\ prediction.predicted_harvest_date # <<>>
            THEN strptime(prediction.predicted_harvest_date[1])
            ELSE FallbackDate(cluster),
        priority_level |-> PriorityLevel(farmer.field_acres),
        priority_booking_enabled |->
            PriorityLevel(farmer.field_acres) \in {"priority", "premium"}]

\* a variant that sends a farmer whose district is in no cluster to a cluster that
\* exists, if there is one
ClusterOfFarmer_Any(cluster_map, farmer) ==
    IF farmer.district_id \in DOMAIN cluster_map
    THEN <<cluster_map[farmer.district_id]>>
    ELSE IF DOMAIN cluster_map # {}
    THEN <<cluster_map[CHOOSE id \in DOMAIN cluster_map : TRUE]>>
    ELSE <<>>

\* district_cluster_map.get(farmer['district_id']): None, or the cluster's place
ClusterOfFarmer(cluster_map, farmer) ==
    IF farmer.district_id \in DOMAIN cluster_map
    THEN <<cluster_map[farmer.district_id]>> ELSE <<>>

\* the loop `for farmer in self.farmers` of assign_farmers_to_clusters, over the first
\* n farmers: the schedules emitted and the clusters with the farmers appended
RECURSIVE AssignLoop(_, _, _)
AssignLoop(self, cluster_map, n) ==
    IF n = 0 THEN [schedules |-> <<>>, clusters |-> self.clusters]
    ELSE LET before == AssignLoop(self, cluster_map, n - 1)
             farmer == self.farmers[n]
             k == ClusterOfFarmer(cluster_map, farmer)
         IN IF k = <<>> THEN before
            ELSE [schedules |->
                     Append(before.schedules,
                            MakeSchedule(self, farmer, before.clusters[k[1]])),
                  clusters |->
                     [before.clusters EXCEPT ![k[1]].farmers = Append(@, farmer)]]

\* assign_farmers_to_clusters: the new self.schedules and self.clusters
assign_farmers_to_clusters(self) ==
    AssignLoop(self, DistrictClusterMap(self.clusters), Len(self.farmers))

(***************************************************************************)
(* HarvestScheduler: the projections.  A district's name stands one to one *)
(* for its id (mock_data.DISTRICTS), so cluster.districts is read as       *)
(* cluster.district_ids and a farmer's 'district' as its district_id.      *)
(***************************************************************************)

\* the dates of `current = window_start; while current <= window_end: current += 1 day`
DatesOfWindow(cluster) ==
    {strftime(PlusDays(cluster.window_start, j)) :
        j \in {i \in 0..CLUSTER_WINDOW_DAYS :
                  PlusDays(cluster.window_start, i) <= cluster.window_end}}

\* matrix[date_str][district] for a district of a cluster; demand_acres, which is
\* total_acres / CLUSTER_WINDOW_DAYS, is kept in units of 1 / CLUSTER_WINDOW_DAYS acre
MatrixEntry(cluster, district) ==
    LET total_acres == AcresOf(cluster.farmers, district)
        machines_per_day == cluster.machines_allocated \div CLUSTER_WINDOW_DAYS
        capacity == machines_per_day * ACRES_PER_MACHINE_PER_DAY
    IN [total_machines |-> IF machines_per_day # 0 THEN machines_per_day ELSE 1,
        available |-> IF machines_per_day # 0 THEN machines_per_day ELSE 1,
        booked |-> 0,
        capacity_acres |-> capacity,
        demand_acres |-> total_acres,
        demand_percentage |->
            Min(100, RoundHalfEven(total_acres * 100,
                                   CLUSTER_WINDOW_DAYS * Max(capacity, 1)))]

\* get_machine_availability_matrix: for every date of a cluster's window and every
\* district of the cluster, the entry of the first cluster that has both
get_machine_availability_matrix(self) ==
    LET has(k, key) == /\ key[1] \in DatesOfWindow(self.clusters[k])
                       /\ key[2] \in Range(self.clusters[k].district_ids)
        keys == UNION {DatesOfWindow(self.clusters[k]) \X Range(self.clusters[k].district_ids) :
                          k \in 1..Len(self.clusters)}
        first(key) == CHOOSE k \in 1..Len(self.clusters) :
                          /\ has(k, key)
                          /\ \A j \in 1..Len(self.clusters) : has(j, key) => k <= j
    IN [key \in keys |-> MatrixEntry(self.clusters[first(key)], key[2])]

\* _get_priority_color
get_priority_color(priority) ==
    IF priority >= 8 THEN "#ef4444"
    ELSE IF priority >= 6 THEN "#f97316"
    ELSE IF priority >= 4 THEN "#eab308"
    ELSE "#22c55e"

\* get_gantt_chart_data: one record per cluster, in the order of self.clusters
get_gantt_chart_data(self) ==
    [k \in 1..Len(self.clusters) |->
        LET cluster == self.clusters[k]
        IN [id |-> cluster.id,
            start |-> cluster.window_start,
            end |-> cluster.window_end,
            startDate |-> strftime(cluster.window_start),
            endDate |-> strftime(cluster.window_end),
            districts |-> cluster.district_ids,
            machines_allocated |-> cluster.machines_allocated,
            machines_required |-> cluster.machines_required,
            machine_coverage |->
                RoundHalfEven(cluster.machines_allocated * 100,
                              Max(cluster.machines_required, 1)),
            farmers_count |-> Len(cluster.farmers),
            total_acres |-> cluster.total_acres,
            avg_ndvi |-> cluster.avg_ndvi,
            priority |-> cluster.priority_score,
            status |-> cluster.status,
            color |-> get_priority_color(cluster.priority_score)]]

\* get_summary; the values rounded to one decimal are in tenths
get_summary(self) ==
    LET n == Len(self.clusters)
        total_farmers == Len(self.schedules)
        total_machines_allocated ==
            SumOver([k \in 1..n |-> self.clusters[k].machines_allocated], n)
        total_machines_required ==
            SumOver([k \in 1..n |-> self.clusters[k].machines_required], n)
        total_acres == SumOver([k \in 1..n |-> self.clusters[k].total_acres], n)
        level(l) == Cardinality({i \in 1..Len(self.schedules) :
                                    self.schedules[i].priority_level = l})
        scored(lo, hi) == Cardinality({k \in 1..n :
                                          /\ lo <= self.clusters[k].priority_score
                                          /\ self.clusters[k].priority_score < hi})
    IN [total_farmers |-> total_farmers,
        total_clusters |-> n,
        total_acres |-> total_acres,
        total_machines_allocated |-> total_machines_allocated,
        total_machines_required |-> total_machines_required,
        machine_deficit |-> Max(0, total_machines_required - total_machines_allocated),
        allocation_rate |-> RoundHalfEven(total_machines_allocated * 1000,
                                          Max(total_machines_required, 1)),
        avg_farmers_per_cluster |-> RoundHalfEven(total_farmers * 10, Max(n, 1)),
        avg_acres_per_farmer |-> RoundHalfEven(total_acres * 10, Max(total_farmers, 1)),
        date_range |->
            [start |-> IF n = 0 THEN <<>>
                       ELSE <<CHOOSE t \in {self.clusters[k].window_start : k \in 1..n} :
                                 \A k \in 1..n : t <= self.clusters[k].window_start>>,
             end |-> IF n = 0 THEN <<>>
                     ELSE <<CHOOSE t \in {self.clusters[k].window_end : k \in 1..n} :
                               \A k \in 1..n : t >= self.clusters[k].window_end>>],
        priority_distribution |->
            [high |-> scored(8, 11), medium |-> scored(5, 8), low |-> scored(0, 5)],
        farmer_priority_distribution |->
            [normal |-> level("normal"), priority |-> level("priority"),
             premium |-> level("premium")]]

(***************************************************************************)
(* The inputs of a scheduling run                                          *)
(***************************************************************************)

\* what a prediction handed to the scheduler may say
SchedOutcomes ==
    {[status |-> "HARVEST_READY", predicted_harvest_date |-> <<Today>>,
      priority_score |-> 9, current_ndvi |-> 3800],
     [status |-> "PREDICTED", predicted_harvest_date |-> <<Today>>,
      priority_score |-> 7, current_ndvi |-> 4100],
     [status |-> "PREDICTED", predicted_harvest_date |-> <<Today + 2>>,
      priority_score |-> 6, current_ndvi |-> 4300],
     [status |-> "PREDICTED", predicted_harvest_date |-> <<Today + CLUSTER_WINDOW_DAYS>>,
      priority_score |-> 4, current_ndvi |-> 5000],
     [status |-> "PREDICTED", predicted_harvest_date |-> <<Today + 2 * CLUSTER_WINDOW_DAYS + 1>>,
      priority_score |-> 2, current_ndvi |-> 6200],
     [status |-> "NOT_DECLINING", predicted_harvest_date |-> <<>>,
      priority_score |-> 1, current_ndvi |-> 7000],
     [status |-> "NOT_DECLINING", predicted_harvest_date |-> <<Today + 2>>,
      priority_score |-> 1, current_ndvi |-> 7000],
     [status |-> "PREDICTED", predicted_harvest_date |-> <<>>,
      priority_score |-> 3, current_ndvi |-> 6000]}

SchedPredictionRecords(i) ==
    {[district_id |-> DistrictIds[i], status |-> o.status,
      predicted_harvest_date |-> o.predicted_harvest_date,
      priority_score |-> o.priority_score, current_ndvi |-> o.current_ndvi] :
        o \in SchedOutcomes}

RECURSIVE SchedListsOfLen(_)
SchedListsOfLen(n) ==
    IF n = 0 THEN {<<>>}
    ELSE {Append(ps, p) : ps \in SchedListsOfLen(n - 1), p \in SchedPredictionRecords(n)}

SchedPredictionLists == UNION {SchedListsOfLen(n) : n \in 0..MaxSchedUnits}

Farmer(id, district_id, field_acres) ==
    [id |-> id, district_id |-> district_id, field_acres |-> field_acres]

SchedFarmerRosters ==
    {<<Farmer("farmer_0001", DistrictIds[1], 10)>>,
     <<Farmer("farmer_0001", DistrictIds[1], 160), Farmer("farmer_0002", DistrictIds[2], 20)>>,
     <<Farmer("farmer_0001", "DL_001", 12)>>}

SchedMachine(i, available, status) ==
    [id |-> MachineIds[i], type |-> "Baler", lat |-> 0,
     has_available |-> TRUE, available |-> available, status |-> status]

\* rosters as mock_data.MACHINES has them (no 'status' key) and with a 'status' key
SchedMachineRosters ==
    {<<>>,
     [i \in 1..4 |-> SchedMachine(i, TRUE, <<>>)],
     [i \in 1..4 |-> SchedMachine(i, i # 2, IF i # 2 THEN <<"available">> ELSE <<"busy">>)]}

\* the times of a scheduling run: before the first window, at its start, at the
\* instant it ends, and after it
SchedNows ==
    {strptime(Today) - 1, strptime(Today), strptime(Today + CLUSTER_WINDOW_DAYS),
     strptime(Today + CLUSTER_WINDOW_DAYS) + 1}

InitSched ==
    /\ \E preds \in SchedPredictionLists, roster \in SchedMachineRosters,
          farmers \in SchedFarmerRosters :
          /\ heap = roster
          /\ sinput = [predictions |-> preds,
                       machines |-> [i \in 1..Len(roster) |-> i],
                       farmers |-> farmers]
    /\ now \in SchedNows
    /\ scheduler = NoScheduler
    /\ spc = "new"
    /\ projection = NoProjection
    /\ caller = [machines |-> <<>>, predictions |-> <<>>, roster0 |-> <<>>]
    /\ allocator = NoAllocator
    /\ apc = [at |-> "none", i |-> 0, runs |-> 0, available0 |-> 0]
    /\ nearest = NoCall
    /\ asummary = <<>>
    /\ pair = NoPair
    /\ predictor = IdlePredictor
    /\ presult = IdleResult

\* the hash seeds of the interpreter process (PYTHONHASHSEED, drawn at random when
\* the process starts unless it is set)
HashSeeds == {1, 2}

\* hash(district['id']) of the k-th district of DISTRICTS in a process with that
\* seed: some number that depends on both
HashOf(seed, k) == seed * (3 * k + 1)

\* _generate_mock_farmers over the first k districts of DISTRICTS (the districts of
\* the model): 5 + hash % 11 farmers a district, numbered through, the farmer
\* numbered n with 5 + n % 20 acres
RECURSIVE MockFarmers(_, _)
MockFarmers(seed, k) ==
    IF k = 0 THEN <<>>
    ELSE LET before == MockFarmers(seed, k - 1)
             num_farmers == 5 + (HashOf(seed, k) % 11)
         IN before \o [i \in 1..num_farmers |->
                          Farmer(<<"farmer", Len(before) + i>>, DistrictIds[k],
                                 5 + ((Len(before) + i) % 20))]

generate_mock_farmers(seed) == MockFarmers(seed, Len(DistrictIds))

(***************************************************************************)
(* HarvestScheduler: the operations                                        *)
(***************************************************************************)

\* HarvestScheduler(predictions, machines, farmers) in a process with some hash seed:
\* self.farmers = farmers or self._generate_mock_farmers()
SchedConstruct ==
    /\ spc = "new"
    /\ \E seed \in HashSeeds :
          scheduler' = [predictions |-> SortByConstructorKey(sinput.predictions),
                        machines |-> sinput.machines,
                        farmers |-> IF sinput.farmers # <<>> THEN sinput.farmers
                                    ELSE generate_mock_farmers(seed),
                        clusters |-> <<>>,
                        schedules |-> <<>>,
                        district_prediction_map |->
                            DistrictPredictionMap(sinput.predictions)]
    /\ spc' = "ready"
    /\ projection' = NoProjection
    /\ UNCHANGED <<heap, sinput, now, caller, allocator, apc, nearest, asummary, pair,
                   varsPredict>>

\* scheduler.create_clusters()
CreateClusters ==
    /\ spc \in {"ready", "clustered", "assigned"}
    /\ scheduler' = [scheduler EXCEPT !.clusters = create_clusters(heap, scheduler, now)]
    /\ spc' = "clustered"
    /\ projection' = NoProjection
    /\ UNCHANGED <<heap, sinput, now, caller, allocator, apc, nearest, asummary, pair,
                   varsPredict>>

\* the number of farmers one call of assign_farmers_to_clusters appends to the
\* cluster at place k
AppendedPerCall(self, k) ==
    Cardinality({n \in 1..Len(self.farmers) :
                    ClusterOfFarmer(DistrictClusterMap(self.clusters), self.farmers[n]) = <<k>>})

\* scheduler.assign_farmers_to_clusters(), at most MaxAssigns times on the same clusters
AssignFarmers ==
    /\ spc \in {"ready", "clustered", "assigned"}
    /\ \A k \in 1..Len(scheduler.clusters) :
          Len(scheduler.clusters[k].farmers) < MaxAssigns * AppendedPerCall(scheduler, k)
            \/ AppendedPerCall(scheduler, k) = 0
    /\ LET result == assign_farmers_to_clusters(scheduler)
       IN scheduler' = [scheduler EXCEPT !.schedules = result.schedules,
                                         !.clusters = result.clusters]
    /\ spc' = "assigned"
    /\ projection' = NoProjection
    /\ UNCHANGED <<heap, sinput, now, caller, allocator, apc, nearest, asummary, pair,
                   varsPredict>>

\* scheduler.get_machine_availability_matrix()
GetMachineAvailabilityMatrix ==
    /\ spc \in {"clustered", "assigned"}
    /\ projection' = [op |-> "matrix", value |-> get_machine_availability_matrix(scheduler)]
    /\ UNCHANGED <<heap, sinput, scheduler, spc, now, caller, allocator, apc, nearest,
                   asummary, pair, varsPredict>>

\* a variant of the Gantt projection that hands out the clusters' farmer lists and
\* leaves the clusters without them
GetGanttChartData_TakeFarmers ==
    /\ spc \in {"clustered", "assigned"}
    /\ projection' = [op |-> "gantt", value |-> get_gantt_chart_data(scheduler)]
    /\ scheduler' = [scheduler EXCEPT !.clusters =
                        [k \in 1..Len(scheduler.clusters) |->
                            [scheduler.clusters[k] EXCEPT !.farmers = <<>>]]]
    /\ UNCHANGED <<heap, sinput, spc, now, caller, allocator, apc, nearest, asummary, pair,
                   varsPredict>>

\* scheduler.get_gantt_chart_data()
GetGanttChartData ==
    /\ spc \in {"clustered", "assigned"}
    /\ projection' = [op |-> "gantt", value |-> get_gantt_chart_data(scheduler)]
    /\ UNCHANGED <<heap, sinput, scheduler, spc, now, caller, allocator, apc, nearest,
                   asummary, pair, varsPredict>>

\* scheduler.get_summary()
GetSummary ==
    /\ spc \in {"clustered", "assigned"}
    /\ projection' = [op |-> "summary", value |-> get_summary(scheduler)]
    /\ UNCHANGED <<heap, sinput, scheduler, spc, now, caller, allocator, apc, nearest,
                   asummary, pair, varsPredict>>

NextSched == SchedConstruct \/ CreateClusters \/ AssignFarmers

SpecSched == InitSched /\ [][NextSched]_vars

(***************************************************************************)
(* Scheduling runs without a farmer roster: HarvestScheduler(predictions,  *)
(* machines), as server.py and main.py build it, or with farmers=[]        *)
(***************************************************************************)
MaxNoFarmersUnits == 2

InitSchedNoFarmers ==
    /\ \E n \in 0..MaxNoFarmersUnits :
          \E preds \in SchedListsOfLen(n), roster \in SchedMachineRosters :
             /\ heap = roster
             /\ sinput = [predictions |-> preds,
                          machines |-> [i \in 1..Len(roster) |-> i],
                          farmers |-> <<>>]
    /\ now \in SchedNows
    /\ scheduler = NoScheduler
    /\ spc = "new"
    /\ projection = NoProjection
    /\ caller = [machines |-> <<>>, predictions |-> <<>>, roster0 |-> <<>>]
    /\ allocator = NoAllocator
    /\ apc = [at |-> "none", i |-> 0, runs |-> 0, available0 |-> 0]
    /\ nearest = NoCall
    /\ asummary = <<>>
    /\ pair = NoPair
    /\ predictor = IdlePredictor
    /\ presult = IdleResult

SpecSchedNoFarmers == InitSchedNoFarmers /\ [][NextSched]_vars

(***************************************************************************)
(* Scheduling runs whose caller reads the projections between the steps,  *)
(* begun with a roster of machines at midnight of the day the first        *)
(* predictions name                                                        *)
(***************************************************************************)
MaxProjectionUnits == 2

\* the prediction lists of these runs: units that are ready or predicted within the
\* first two windows
RECURSIVE ProjectionListsOfLen(_)
ProjectionListsOfLen(n) ==
    IF n = 0 THEN {<<>>}
    ELSE {Append(ps, p) :
            ps \in ProjectionListsOfLen(n - 1),
            p \in {x \in SchedPredictionRecords(n) :
                      /\ IsValidPrediction(x)
                      /\ x.predicted_harvest_date[1] <= Today + CLUSTER_WINDOW_DAYS}}

InitSchedProjections ==
    /\ \E n \in 0..MaxProjectionUnits :
          \E preds \in ProjectionListsOfLen(n), roster \in SchedMachineRosters \ {<<>>},
             farmers \in SchedFarmerRosters :
             /\ heap = roster
             /\ sinput = [predictions |-> preds,
                          machines |-> [i \in 1..Len(roster) |-> i],
                          farmers |-> farmers]
    /\ now = strptime(Today)
    /\ scheduler = NoScheduler
    /\ spc = "new"
    /\ projection = NoProjection
    /\ caller = [machines |-> <<>>, predictions |-> <<>>, roster0 |-> <<>>]
    /\ allocator = NoAllocator
    /\ apc = [at |-> "none", i |-> 0, runs |-> 0, available0 |-> 0]
    /\ nearest = NoCall
    /\ asummary = <<>>
    /\ pair = NoPair
    /\ predictor = IdlePredictor
    /\ presult = IdleResult

NextSchedProjections ==
    SchedConstruct \/ CreateClusters \/ AssignFarmers
      \/ GetMachineAvailabilityMatrix \/ GetGanttChartData \/ GetSummary

SpecSchedProjections == InitSchedProjections /\ [][NextSchedProjections]_vars

(***************************************************************************)
(* Properties of the allocator (checked under SpecAlloc)                   *)
(***************************************************************************)
RunFinished == apc.at = "idle" /\ apc.runs >= 1

CountOf(records, district_id) ==
    Cardinality({i \in 1..Len(records) : records[i].district_id = district_id})

\* C1: in a single run of allocate_machines no machine id appears in more than one
\* Allocation record (machine ids are unique in the roster)
C1_NoMachineTwice ==
    \A i, j \in 1..Len(allocator.allocations) :
        i # j => allocator.allocations[i].machine_id # allocator.allocations[j].machine_id

\* a run that allocated two machines has returned
C1_Witness ==
    /\ RunFinished
    /\ Len(allocator.allocations) >= 2

\* C2: when allocate_machines has returned, len(allocations) + len(unallocated_districts)
\* = len(predictions), and every input prediction is in exactly one of the two lists
C2_Partition ==
    RunFinished =>
        /\ Len(allocator.allocations) + Len(allocator.unallocated_districts)
               = Len(caller.predictions)
        /\ Len(allocator.predictions) = Len(caller.predictions)
        /\ \A k \in 1..Len(caller.predictions) :
               CountOf(allocator.allocations, caller.predictions[k].district_id)
                 + CountOf(allocator.unallocated_districts, caller.predictions[k].district_id)
                 = 1

\* a run has returned with one district served and one left without a machine
C2_Witness ==
    /\ RunFinished
    /\ Len(allocator.allocations) >= 1
    /\ Len(allocator.unallocated_districts) >= 1

\* C3: constructing the allocator and running allocate_machines leaves every machine
\* record of the caller's roster as it was passed in
C3_CallerRosterUnchanged ==
    /\ Len(caller.machines) = Len(caller.roster0)
    /\ \A i \in 1..Len(caller.machines) : heap[caller.machines[i]] = caller.roster0[i]

\* a run has returned having allocated a machine whose record the caller holds as
\* available, and the allocator's own copy of it is no longer available
C3_Witness ==
    /\ RunFinished
    /\ \E a \in Range(allocator.allocations), i \in 1..Len(caller.machines) :
          /\ heap[caller.machines[i]].id = a.machine_id
          /\ heap[caller.machines[i]].has_available
          /\ heap[caller.machines[i]].available
          /\ ~GetAvailable(heap[allocator.machines[i]])

(***************************************************************************)
(* Properties of the scheduler (checked under SpecSched)                   *)
(***************************************************************************)

\* the number of cluster member lists that hold the district
MembershipCount(clusters, district_id) ==
    Cardinality({<<k, i>> \in (1..Len(clusters)) \X (1..MaxSchedUnits + 1) :
                    /\ i <= Len(clusters[k].district_ids)
                    /\ clusters[k].district_ids[i] = district_id})

\* C4: the clusters of one create_clusters call are listed in strictly increasing
\* window_start order and do not overlap: an earlier cluster's window_end is before
\* every later cluster's window_start
C4_WindowsDisjointOrdered ==
    \A i, j \in 1..Len(scheduler.clusters) :
        i < j =>
            /\ scheduler.clusters[i].window_start < scheduler.clusters[j].window_start
            /\ scheduler.clusters[i].window_end < scheduler.clusters[j].window_start
            /\ scheduler.clusters[i].window_start <= scheduler.clusters[i].window_end

\* two clusters were created whose windows are adjacent
C4_Witness ==
    /\ spc = "clustered"
    /\ Len(scheduler.clusters) >= 2
    /\ scheduler.clusters[2].window_start = WindowEnd(scheduler.clusters[1].window_start)

\* C5: after create_clusters the members of the clusters are exactly the units whose
\* prediction has a predicted date and a status other than NotDeclining, each of them
\* in exactly one cluster
C5_MembersExactlyValidUnits ==
    spc = "clustered" =>
        /\ \A k \in 1..Len(sinput.predictions) :
              LET p == sinput.predictions[k]
              IN MembershipCount(scheduler.clusters, p.district_id)
                   = IF p.predicted_harvest_date # <<>> /\ p.status # "NOT_DECLINING"
                     THEN 1 ELSE 0
        /\ \A c \in Range(scheduler.clusters) :
              /\ c.district_ids # <<>>
              /\ \A id \in Range(c.district_ids) :
                    \E p \in Range(sinput.predictions) : p.district_id = id

\* two clusters were created with an empty window skipped between them, and a
\* NotDeclining prediction that carries a date was left out
C5_Witness ==
    /\ spc = "clustered"
    /\ Len(scheduler.clusters) = 2
    /\ scheduler.clusters[2].window_start > WindowEnd(scheduler.clusters[1].window_start)
    /\ \E p \in Range(sinput.predictions) :
          /\ p.status = "NOT_DECLINING"
          /\ p.predicted_harvest_date # <<>>
          /\ MembershipCount(scheduler.clusters, p.district_id) = 0

(***************************************************************************)
(* Properties of the predictor (checked under SpecPredict)                 *)
(***************************************************************************)

\* the Prediction records the last call returned
Returned ==
    IF presult.op \in {"predict_harvest_date", "predict_all_districts"}
    THEN Range(presult.value) ELSE {}

ReadingsOf(district_id) == Len(RowsOf(predictor.ndvi_data, district_id))

\* C6: a district with fewer than MIN_DATA_DAYS readings gets None from
\* predict_harvest_date, and predict_all_districts returns exactly one prediction for
\* every district that has at least MIN_DATA_DAYS readings (and none for the others)
C6_ShortSeriesSkipped ==
    /\ (presult.op = "predict_harvest_date"
            /\ ReadingsOf(presult.district_id) < MIN_DATA_DAYS)
         => presult.value = <<>>
    /\ presult.op = "predict_all_districts" =>
         \A k \in 1..Len(predictor.ndvi_data) :
            LET id == predictor.ndvi_data[k].district_id
            IN CountOf(presult.value, id)
                 = IF ReadingsOf(id) >= MIN_DATA_DAYS THEN 1 ELSE 0

\* predict_all_districts has returned one prediction for data that holds one district
\* with too few readings and one with exactly MIN_DATA_DAYS
C6_Witness ==
    /\ presult.op = "predict_all_districts"
    /\ Len(presult.value) = 1
    /\ \E k \in 1..Len(predictor.ndvi_data) :
          Len(predictor.ndvi_data[k].rows) < MIN_DATA_DAYS
    /\ \E k \in 1..Len(predictor.ndvi_data) :
          Len(predictor.ndvi_data[k].rows) = MIN_DATA_DAYS

\* C7: every returned Prediction has an integer priority_score in 1..10
C7_UrgencyInRange ==
    \A p \in Returned : p.priority_score \in 1..10

\* a prediction whose three band contributions are all 0 was returned with score 1
C7_Witness ==
    \E p \in Returned :
        /\ p.current_ndvi > 6500
        /\ p.ndvi_decline_rate > -10000
        /\ p.days_until_harvest = <<>>
        /\ p.priority_score = 1

\* C8 as claimed: Ready with days 0 when current <= THRESHOLD; else NotDeclining with
\* no date and no days when slope >= 0; else Predicted with
\* days = (THRESHOLD - current) / slope and predicted_date = now + days
C8_ClassificationExactDays ==
    \A p \in Returned :
        IF p.current_ndvi <= HARVEST_THRESHOLD
        THEN p.status = "HARVEST_READY" /\ p.days_until_harvest = <<0>>
        ELSE IF p.ndvi_decline_rate >= 0
        THEN /\ p.status = "NOT_DECLINING"
             /\ p.predicted_harvest_date = <<>>
             /\ p.days_until_harvest = <<>>
        ELSE /\ p.status = "PREDICTED"
             /\ p.days_until_harvest # <<>>
             /\ p.days_until_harvest[1] * p.ndvi_decline_rate
                    = 100 * (HARVEST_THRESHOLD - p.current_ndvi)
             /\ p.predicted_harvest_date
                    = <<strftime(PlusDays(now, p.days_until_harvest[1]))>>

\* what the code does instead: the same rules with the quotient cut to whole days,
\* one day fewer where double precision puts a whole quotient just below itself
ClassificationWholeDays ==
    \A p \in Returned :
        IF p.current_ndvi <= HARVEST_THRESHOLD
        THEN p.status = "HARVEST_READY" /\ p.days_until_harvest = <<0>>
        ELSE IF p.ndvi_decline_rate >= 0
        THEN /\ p.status = "NOT_DECLINING"
             /\ p.predicted_harvest_date = <<>>
             /\ p.days_until_harvest = <<>>
        ELSE /\ p.status = "PREDICTED"
             /\ p.days_until_harvest # <<>>
             /\ LET days == p.days_until_harvest[1]
                    gap == 100 * (p.current_ndvi - HARVEST_THRESHOLD)
                IN days * (-p.ndvi_decline_rate) <= gap
                     /\ gap <= (days + 1) * (-p.ndvi_decline_rate)
             /\ p.predicted_harvest_date
                    = <<strftime(PlusDays(now, p.days_until_harvest[1]))>>

\* C9 as claimed: predicted_date is null iff the status is not Predicted
C9_DateNullIffNotPredicted ==
    \A p \in Returned : (p.predicted_harvest_date = <<>>) <=> (p.status # "PREDICTED")

\* C9 as amended: predicted_date is null iff the status is NotDeclining; a Ready
\* prediction carries the day of the run, a Predicted one the day of now + days
C9_DateNullIffNotDeclining ==
    \A p \in Returned :
        /\ (p.predicted_harvest_date = <<>>) <=> (p.status = "NOT_DECLINING")
        /\ p.status = "HARVEST_READY" => p.predicted_harvest_date = <<strftime(now)>>
        /\ p.status = "PREDICTED" =>
              p.predicted_harvest_date = <<strftime(PlusDays(now, p.days_until_harvest[1]))>>

\* a Ready prediction was returned, dated today
C9_Witness ==
    \E p \in Returned :
        /\ p.status = "HARVEST_READY"
        /\ p.current_ndvi <= HARVEST_THRESHOLD
        /\ p.predicted_harvest_date = <<Today>>

\* C10 as claimed: for a Predicted result with slope m < 0 and current value
\* c > THRESHOLD, THRESHOLD = c + m * days_until_event
C10_DaysSolveThreshold ==
    \A p \in Returned :
        (p.status = "PREDICTED" /\ p.ndvi_decline_rate < 0
            /\ p.current_ndvi > HARVEST_THRESHOLD)
        => 100 * HARVEST_THRESHOLD
             = 100 * p.current_ndvi + p.ndvi_decline_rate * p.days_until_harvest[1]

\* the place of a district id in the order of the id strings
UnitRank(district_id) ==
    CHOOSE k \in 1..Len(PredictDistricts) : PredictDistricts[k] = district_id

\* C11 as claimed: the list predict_all_districts returns is sorted by priority_score
\* descending, predictions of equal score by district id, whatever the order of
\* the districts in the readings
C11_SortedByUrgencyThenUnit ==
    presult.op = "predict_all_districts" =>
        \A i, j \in 1..Len(presult.value) :
            i < j =>
                \/ presult.value[i].priority_score > presult.value[j].priority_score
                \/ /\ presult.value[i].priority_score = presult.value[j].priority_score
                   /\ UnitRank(presult.value[i].district_id)
                        < UnitRank(presult.value[j].district_id)

\* what the code does: sorted by priority_score descending, predictions of equal
\* score in the order their districts first appear in the readings
SortedByUrgencyThenInputOrder ==
    presult.op = "predict_all_districts" =>
        \A i, j \in 1..Len(presult.value) :
            i < j =>
                \/ presult.value[i].priority_score > presult.value[j].priority_score
                \/ /\ presult.value[i].priority_score = presult.value[j].priority_score
                   /\ \E a, b \in 1..Len(predictor.ndvi_data) :
                         /\ a < b
                         /\ predictor.ndvi_data[a].district_id = presult.value[i].district_id
                         /\ predictor.ndvi_data[b].district_id = presult.value[j].district_id

(***************************************************************************)
(* The greedy pass of the allocator (checked under SpecAlloc)              *)
(***************************************************************************)

\* the allocator's machines that are available in heap h
AvailableRefs(h) == {r \in Range(allocator.machines) : GetAvailable(h[r])}

\* the latitude of the prediction the allocator holds for a district
LatOf(district_id) ==
    (CHOOSE p \in Range(allocator.predictions) : p.district_id = district_id).lat

\* C12: every pass of the loop of allocate_machines leaves the Allocations recorded
\* so far as they are, and the Allocation it adds, if any, is for the prediction at
\* the loop index and names a machine of minimal distance among the machines
\* available when the pass began
C12_GreedySinglePass ==
    [][(apc.at = "loop" /\ apc'.at = "loop") =>
          LET old == allocator.allocations
              new == allocator'.allocations
              prediction == allocator.predictions[apc.i]
          IN /\ Len(new) \in {Len(old), Len(old) + 1}
             /\ SubSeq(new, 1, Len(old)) = old
             /\ Len(new) = Len(old) + 1 =>
                   /\ new[Len(new)].district_id = prediction.district_id
                   /\ \E r \in AvailableRefs(heap) :
                         /\ heap[r].id = new[Len(new)].machine_id
                         /\ new[Len(new)].distance_km
                               = haversine_distance(prediction.lat, heap[r].lat)
                         /\ \A q \in AvailableRefs(heap) :
                               haversine_distance(prediction.lat, heap[q].lat)
                                 >= new[Len(new)].distance_km]_vars

\* a run has returned in which the first prediction took the nearer machine and the
\* second one was left with a machine that is farther from it than the one taken
C12_Witness ==
    /\ RunFinished
    /\ Len(allocator.allocations) = 2
    /\ allocator.allocations[1].distance_km < allocator.allocations[2].distance_km
    /\ \E r \in Range(allocator.machines) :
          /\ heap[r].id = allocator.allocations[1].machine_id
          /\ haversine_distance(LatOf(allocator.allocations[2].district_id), heap[r].lat)
                < allocator.allocations[2].distance_km

(***************************************************************************)
(* find_nearest_available_machine (checked under SpecAlloc)                *)
(***************************************************************************)

\* the place of a machine object in self.machines
PosOf(r) == CHOOSE i \in 1..Len(allocator.machines) : allocator.machines[i] = r

\* the value the call returned is what the rule of C13 gives when `pool` are the
\* machines that count as available: None iff the pool is empty; otherwise a machine
\* of the pool, of the preferred type when one is given and the pool holds it, at
\* minimal distance among these candidates and first in the roster among the
\* candidates at that distance
NearestRule(pool) ==
    LET typed == IF nearest.preferred_type = <<>> THEN {}
                 ELSE {r \in pool : heap[r].type = nearest.preferred_type[1]}
        cands == IF typed # {} THEN typed ELSE pool
        dist(r) == haversine_distance(nearest.district_lat, heap[r].lat)
    IN IF pool = {} THEN nearest.value = <<>>
       ELSE /\ nearest.value # <<>>
            /\ nearest.value[1].machine \in cands
            /\ nearest.value[1].distance = dist(nearest.value[1].machine)
            /\ \A q \in cands :
                  \/ dist(q) > nearest.value[1].distance
                  \/ /\ dist(q) = nearest.value[1].distance
                     /\ PosOf(q) >= PosOf(nearest.value[1].machine)

\* the owner of the allocator has just called find_nearest_available_machine
DirectCall == apc.at = "idle" /\ nearest.called

Exhausted(h) == \A r \in Range(allocator.machines) : h[r].has_available /\ ~h[r].available

\* C14: a pass of the loop of allocate_machines records the prediction at the loop
\* index as unallocated, with a reason, exactly when no machine is available as the
\* pass begins; otherwise it records an Allocation for it, and the machine it names
\* is unavailable afterwards; no step of a run makes an unavailable machine available
C14_UnallocatedIffExhausted ==
    [][(apc.at = "loop") =>
          LET prediction == allocator.predictions[apc.i]
              allocs == allocator.allocations
              unalloc == allocator.unallocated_districts
          IN /\ \A r \in Range(allocator.machines) :
                   (heap[r].has_available /\ ~heap[r].available)
                      => (heap'[r].has_available /\ ~heap'[r].available)
             /\ (apc'.at = "loop" /\ Exhausted(heap)) =>
                   /\ allocator'.allocations = allocs
                   /\ Len(allocator'.unallocated_districts) = Len(unalloc) + 1
                   /\ SubSeq(allocator'.unallocated_districts, 1, Len(unalloc)) = unalloc
                   /\ LET u == allocator'.unallocated_districts[Len(unalloc) + 1]
                      IN u.district_id = prediction.district_id
                           /\ u.reason = "No available machines"
             /\ (apc'.at = "loop" /\ ~Exhausted(heap)) =>
                   /\ allocator'.unallocated_districts = unalloc
                   /\ Len(allocator'.allocations) = Len(allocs) + 1
                   /\ LET a == allocator'.allocations[Len(allocs) + 1]
                      IN /\ a.district_id = prediction.district_id
                         /\ \E r \in Range(allocator.machines) :
                               /\ heap[r].id = a.machine_id
                               /\ ~heap[r].has_available \/ heap[r].available
                               /\ heap'[r].has_available /\ ~heap'[r].available]_vars

\* a run has returned that allocated its first prediction to the only available
\* machine, a record without the flag, and left the second one unallocated
C14_Witness ==
    /\ RunFinished
    /\ apc.runs = 1
    /\ Len(allocator.allocations) = 1
    /\ Len(allocator.unallocated_districts) = 1
    /\ allocator.allocations[1].district_id = allocator.predictions[1].district_id
    /\ allocator.unallocated_districts[1].district_id = allocator.predictions[2].district_id
    /\ \E i \in 1..Len(caller.machines) :
          /\ ~heap[caller.machines[i]].has_available
          /\ heap[caller.machines[i]].id = allocator.allocations[1].machine_id

(***************************************************************************)
(* Capacity and status of the clusters (checked under SpecSched)           *)
(***************************************************************************)

\* the number of machines of the scheduler's roster whose record has available = true
FlaggedAvailableCount ==
    Cardinality({i \in 1..Len(scheduler.machines) :
                    /\ heap[scheduler.machines[i]].has_available
                    /\ heap[scheduler.machines[i]].available})

\* C15 as claimed: every cluster has machines_allocated = min(machines_required, N),
\* N the number of machines of the roster whose available flag is true
C15_AllocatedIsMinOfRequiredAndAvailable ==
    spc = "clustered" =>
        \A c \in Range(scheduler.clusters) :
            c.machines_allocated = Min(c.machines_required, FlaggedAvailableCount)

\* what the code does: N counts the records whose 'status' is 'available'
AllocatedIsMinOfRequiredAndStatusAvailable ==
    spc = "clustered" =>
        \A c \in Range(scheduler.clusters) :
            c.machines_allocated
              = Min(c.machines_required, AvailableCount(heap, scheduler.machines))

\* C16 as claimed: with the half-open window [window_start, window_start +
\* CLUSTER_WINDOW_DAYS), a cluster is pending iff now is before the window, active
\* iff now is in it, completed iff now is at or past its end
C16_StatusByHalfOpenWindow ==
    spc = "clustered" =>
        \A c \in Range(scheduler.clusters) :
            c.status = IF now < c.window_start THEN "pending"
                       ELSE IF now < WindowEnd(c.window_start) THEN "active"
                       ELSE "completed"

\* what the code does: as claimed at every instant but the one at which the window
\* ends, where the cluster is pending
StatusPendingAtWindowEnd ==
    spc = "clustered" =>
        \A c \in Range(scheduler.clusters) :
            c.status = IF now < c.window_start THEN "pending"
                       ELSE IF now < WindowEnd(c.window_start) THEN "active"
                       ELSE IF now = WindowEnd(c.window_start) THEN "pending"
                       ELSE "completed"

(***************************************************************************)
(* The schedules of the farmers (checked under SpecSched)                  *)
(***************************************************************************)

\* the schedules emitted for a farmer id
SchedulesOf(farmer_id) ==
    {i \in 1..Len(scheduler.schedules) : scheduler.schedules[i].farmer_id = farmer_id}

\* C17: after assign_farmers_to_clusters there is exactly one Schedule for every
\* farmer whose district is a member of a cluster, carrying the id of the cluster
\* that lists the district, and no Schedule for any other farmer
C17_OneSchedulePerClusteredFarmer ==
    spc = "assigned" =>
        /\ \A n \in 1..Len(scheduler.farmers) :
              LET farmer == scheduler.farmers[n]
              IN IF MembershipCount(scheduler.clusters, farmer.district_id) = 0
                 THEN SchedulesOf(farmer.id) = {}
                 ELSE /\ Cardinality(SchedulesOf(farmer.id)) = 1
                      /\ \A i \in SchedulesOf(farmer.id) :
                            \E c \in Range(scheduler.clusters) :
                               /\ c.id = scheduler.schedules[i].cluster_id
                               /\ farmer.district_id \in Range(c.district_ids)
        /\ \A i \in 1..Len(scheduler.schedules) :
              \E n \in 1..Len(scheduler.farmers) :
                 scheduler.farmers[n].id = scheduler.schedules[i].farmer_id

\* of two farmers, one was scheduled into the second of two clusters and the other,
\* whose district is in no cluster, was skipped
C17_Witness ==
    /\ spc = "assigned"
    /\ Len(scheduler.farmers) = 2
    /\ Len(scheduler.clusters) = 2
    /\ Len(scheduler.schedules) = 1
    /\ scheduler.schedules[1].cluster_id = scheduler.clusters[2].id

\* C18: every Schedule carries the window_start and window_end of the cluster it
\* names, and its optimal_harvest_date lies in that window, ends included
C18_ScheduleInsideClusterWindow ==
    spc = "assigned" =>
        \A i \in 1..Len(scheduler.schedules) :
            LET sch == scheduler.schedules[i]
            IN \E c \in Range(scheduler.clusters) :
                  /\ c.id = sch.cluster_id
                  /\ sch.assigned_window_start = c.window_start
                  /\ sch.assigned_window_end = c.window_end
                  /\ c.window_start <= sch.optimal_harvest_date
                  /\ sch.optimal_harvest_date <= c.window_end

\* a farmer was scheduled whose optimal date is the last day of its cluster's
\* window, the day the stored window_end names
C18_Witness ==
    /\ spc = "assigned"
    /\ \E i \in 1..Len(scheduler.schedules), c \in Range(scheduler.clusters) :
          /\ c.id = scheduler.schedules[i].cluster_id
          /\ scheduler.schedules[i].optimal_harvest_date = c.window_end
          /\ c.window_start < c.window_end

(***************************************************************************)
(* Determinism of a scheduling run (checked under SpecSchedNoFarmers)      *)
(***************************************************************************)

\* the scheduler a reference run constructs from the same arguments
ReferenceScheduler ==
    [predictions |-> SortByConstructorKey(sinput.predictions),
     machines |-> sinput.machines,
     farmers |-> IF sinput.farmers # <<>> THEN sinput.farmers
                 ELSE generate_mock_farmers(CHOOSE seed \in HashSeeds : TRUE),
     clusters |-> <<>>,
     schedules |-> <<>>,
     district_prediction_map |-> DistrictPredictionMap(sinput.predictions)]

\* the clusters the reference run creates
ReferenceClusters == create_clusters(heap, ReferenceScheduler, now)

\* the outputs of the run are those of the reference run: the same farmers, the same
\* clusters from create_clusters, the same schedules from assign_farmers_to_clusters
SameAsReferenceRun ==
    /\ spc # "new" =>
          /\ scheduler.predictions = ReferenceScheduler.predictions
          /\ scheduler.farmers = ReferenceScheduler.farmers
    /\ spc = "clustered" => scheduler.clusters = ReferenceClusters
    /\ (spc = "assigned" /\ scheduler.clusters # <<>>) =>
          scheduler.schedules
            = assign_farmers_to_clusters(
                  [ReferenceScheduler EXCEPT !.clusters = ReferenceClusters]).schedules

\* C19 as claimed: two scheduling runs on the same predictions, machine roster and
\* (absent or empty) farmer roster at the same `now` give the same clusters and
\* schedules
C19_PipelineDeterministic == SameAsReferenceRun

\* what the code does: a run with a non-empty farmer roster gives what the reference
\* run gives
DeterministicWithRoster == sinput.farmers # <<>> => SameAsReferenceRun

(***************************************************************************)
(* Repeated runs of one allocator (checked under SpecAlloc)                *)
(***************************************************************************)

\* the passes of allocate_machines over the first k predictions, begun on the
\* machine records h: the records and the two result lists after them
RECURSIVE RunOnRecords(_, _)
RunOnRecords(h, k) ==
    IF k = 0 THEN [heap |-> h, allocations |-> <<>>, unallocated_districts |-> <<>>]
    ELSE LET before == RunOnRecords(h, k - 1)
             prediction == allocator.predictions[k]
             refs == [i \in 1..Len(h) |-> i]
             result == find_nearest_available_machine(before.heap, refs,
                                                      prediction.lat, <<>>)
         IN IF result = <<>>
            THEN [before EXCEPT !.unallocated_districts =
                                    RecordUnallocated(@, prediction)]
            ELSE [heap |-> MarkUnavailable(before.heap, refs,
                                           before.heap[result[1].machine].id),
                  allocations |-> RecordAllocation(before.allocations, prediction,
                                                   before.heap, result[1]),
                  unallocated_districts |-> before.unallocated_districts]

\* what a run gives that starts from the roster as it was passed to the constructor
RunOnOriginalRoster == RunOnRecords(caller.roster0, Len(allocator.predictions))

\* C20 as claimed: every run of allocate_machines on an allocator, the second like
\* the first, starts with every machine at the availability it had in the roster
\* passed in, and returns the allocations and unallocated records of a run on that
\* roster
C20_EveryRunOnOriginalRoster ==
    /\ (apc.at = "loop" /\ apc.i = 1) =>
          \A i \in 1..Len(allocator.machines) :
              GetAvailable(heap[allocator.machines[i]]) = GetAvailable(caller.roster0[i])
    /\ RunFinished =>
          /\ allocator.allocations = RunOnOriginalRoster.allocations
          /\ allocator.unallocated_districts = RunOnOriginalRoster.unallocated_districts

\* what the code does: the first run is a run on the roster as passed in; a later
\* run starts from the records as the run before left them
FirstRunOnOriginalRoster ==
    /\ (apc.at = "loop" /\ apc.i = 1 /\ apc.runs = 0) =>
          \A i \in 1..Len(allocator.machines) :
              GetAvailable(heap[allocator.machines[i]]) = GetAvailable(caller.roster0[i])
    /\ (RunFinished /\ apc.runs = 1) =>
          /\ allocator.allocations = RunOnOriginalRoster.allocations
          /\ allocator.unallocated_districts = RunOnOriginalRoster.unallocated_districts

(***************************************************************************)
(* Two runs on one roster (checked under SpecAllocPair)                    *)
(***************************************************************************)

\* the passes of allocate_machines over the first k of `predictions`, run alone on
\* machine records h: the records and the two result lists after them
RECURSIVE RunAlone(_, _, _)
RunAlone(h, predictions, k) ==
    IF k = 0 THEN [heap |-> h, allocations |-> <<>>, unallocated_districts |-> <<>>]
    ELSE LET before == RunAlone(h, predictions, k - 1)
             prediction == predictions[k]
             refs == [i \in 1..Len(h) |-> i]
             result == find_nearest_available_machine(before.heap, refs,
                                                      prediction.lat, <<>>)
         IN IF result = <<>>
            THEN [before EXCEPT !.unallocated_districts =
                                    RecordUnallocated(@, prediction)]
            ELSE [heap |-> MarkUnavailable(before.heap, refs,
                                           before.heap[result[1].machine].id),
                  allocations |-> RecordAllocation(before.allocations, prediction,
                                                   before.heap, result[1]),
                  unallocated_districts |-> before.unallocated_districts]

\* what the k-th allocator of the pair gives when no other run exists
AloneOfPair(k) ==
    RunAlone(caller.roster0, SortByPriorityDesc(pair[k].arg), Len(pair[k].arg))

\* C21: of two allocators built from the same caller roster, whose loop passes
\* interleave in any order, each ends its run with the allocations and unallocated
\* records it produces when it runs alone
C21_PairRunsDoNotInterfere ==
    \A k \in 1..Len(pair) :
        pair[k].at = "done" =>
            /\ pair[k].allocations = AloneOfPair(k).allocations
            /\ pair[k].unallocated_districts = AloneOfPair(k).unallocated_districts

\* both runs are over, the first having allocated two machines, and the first
\* Allocation of each names the same machine of the caller's roster
C21_Witness ==
    /\ Len(pair) = 2
    /\ pair[1].at = "done"
    /\ pair[2].at = "done"
    /\ Len(pair[1].allocations) = 2
    /\ Len(pair[2].allocations) >= 1
    /\ pair[1].allocations[1].machine_id = pair[2].allocations[1].machine_id

(***************************************************************************)
(* The projections of the scheduler (checked under SpecSchedProjections)   *)
(***************************************************************************)

\* the step is a call of one of the three projections
ProjectionCall == projection'.op \in {"matrix", "gantt", "summary"}

\* C22: a call of get_machine_availability_matrix, get_gantt_chart_data or
\* get_summary leaves the scheduler's clusters, schedules, farmers and machine roster
\* as they are, and leaves the value each of the three projections returns as it is,
\* so that a projection returns the same whatever projections were called before it
C22_ProjectionsPureAndIndependent ==
    [][ProjectionCall =>
          /\ scheduler'.clusters = scheduler.clusters
          /\ scheduler'.schedules = scheduler.schedules
          /\ scheduler'.farmers = scheduler.farmers
          /\ scheduler'.machines = scheduler.machines
          /\ \A i \in 1..Len(scheduler.machines) :
                heap'[scheduler.machines[i]] = heap[scheduler.machines[i]]
          /\ get_machine_availability_matrix(scheduler')
               = get_machine_availability_matrix(scheduler)
          /\ get_gantt_chart_data(scheduler') = get_gantt_chart_data(scheduler)
          /\ get_summary(scheduler') = get_summary(scheduler)]_vars

\* the Gantt projection was called on two clusters with farmers assigned, and the
\* matrix projection called now returns the demand of those farmers
C22_Witness ==
    /\ projection.op = "gantt"
    /\ Len(projection.value) = 2
    /\ projection.value[1].farmers_count >= 1
    /\ \E key \in DOMAIN get_machine_availability_matrix(scheduler) :
          get_machine_availability_matrix(scheduler)[key].demand_acres > 0

(***************************************************************************)
(* get_allocation_summary (checked under SpecAllocSummary)                 *)
(***************************************************************************)

\* the step is a call of get_allocation_summary
SummaryCall == apc.at = "idle" /\ asummary' # <<>>

\* the step leaves the two result lists and every machine's availability as they are
ResultsAndMachinesKept ==
    /\ allocator'.allocations = allocator.allocations
    /\ allocator'.unallocated_districts = allocator.unallocated_districts
    /\ \A r \in Range(allocator.machines) : GetAvailable(heap'[r]) = GetAvailable(heap[r])

\* C23 as claimed: a call of get_allocation_summary, in any state of the allocator,
\* changes neither the allocations, nor the unallocated list, nor any machine's
\* availability
C23_SummaryChangesNothing == [][SummaryCall => ResultsAndMachinesKept]_vars

\* what the code does: the call changes nothing when one of the two lists is not
\* empty; with both empty it makes a run of allocate_machines
SummaryChangesNothingAfterResults ==
    [][(SummaryCall /\ ~SummaryRuns(allocator)) => ResultsAndMachinesKept]_vars

(***************************************************************************)
(* A scheduler given no farmers (checked under SpecSchedNoFarmers)         *)
(***************************************************************************)

\* C24 as claimed: when the scheduler is given an empty farmer roster, every cluster
\* has total_acres = 0 and machines_required = MIN_MACHINES_PER_CLUSTER, and
\* assign_farmers_to_clusters emits no Schedule
C24_NoFarmersZeroResults ==
    sinput.farmers = <<>> =>
        /\ spc \in {"clustered", "assigned"} =>
              \A c \in Range(scheduler.clusters) :
                  /\ c.total_acres = 0
                  /\ c.machines_required = MIN_MACHINES_PER_CLUSTER
        /\ spc = "assigned" => scheduler.schedules = <<>>

\* what the code does: given an empty roster the scheduler works on the farmers
\* _generate_mock_farmers makes up, five or more to a district, so that every
\* cluster has acres to harvest and every farmer of a clustered district a Schedule
NoFarmersMockResults ==
    sinput.farmers = <<>> =>
        /\ spc # "new" => Len(scheduler.farmers) >= 5 * Len(DistrictIds)
        /\ spc \in {"clustered", "assigned"} =>
              \A c \in Range(scheduler.clusters) : c.total_acres > 0
        /\ (spc = "assigned" /\ scheduler.clusters # <<>>) =>
              Len(scheduler.schedules) >= 5

(***************************************************************************)
(* Machine records without coordinates (checked under SpecAllocMalformed)  *)
(***************************************************************************)

\* some machine record of the roster passed in has no coordinates
MalformedRoster == \E i \in 1..Len(caller.roster0) : "lat" \notin DOMAIN caller.roster0[i]

\* nothing has been recorded and no machine's availability has changed
NothingDone ==
    /\ allocator.allocations = <<>>
    /\ allocator.unallocated_districts = <<>>
    /\ \A i \in 1..Len(allocator.machines) :
          GetAvailable(heap[allocator.machines[i]]) = GetAvailable(caller.roster0[i])

\* C25 as claimed: if a machine record of the roster lacks its coordinates, flagged
\* available or not, the error is reported before any Allocation or unallocated
\* record is recorded and before any machine's availability changes: no pass of the
\* run records anything, and the run does not return as if the roster were sound
C25_MalformedRosterReportedFirst ==
    MalformedRoster => (NothingDone /\ ~(RunFinished /\ allocator.predictions # <<>>))

\* what the code does: the KeyError is raised by the first pass that finds a machine
\* without coordinates among the available ones, and nothing has been recorded by
\* then; a machine without coordinates that is not available is never looked at
MalformedReportedWhenAvailable ==
    /\ apc.at = "raised" =>
          /\ NothingDone
          /\ \E i \in 1..Len(caller.roster0) :
                /\ "lat" \notin DOMAIN caller.roster0[i]
                /\ GetAvailable(caller.roster0[i])
    /\ (\E i \in 1..Len(caller.roster0) :
           "lat" \notin DOMAIN caller.roster0[i] /\ GetAvailable(caller.roster0[i]))
          => NothingDone

(***************************************************************************)
(* Machine exhaustion within a run (checked under SpecAllocSummary)        *)
(***************************************************************************)

\* the place of a district's prediction in the order the run processes them
PlaceOf(district_id) ==
    CHOOSE k \in 1..Len(allocator.predictions) :
        allocator.predictions[k].district_id = district_id

\* C26: within a run of allocate_machines the allocated predictions are a prefix of
\* the processing order (every Allocation's prediction comes before every
\* unallocated one); when the run has returned the number of Allocations is
\* min(number of predictions, number of machines available when the run began); and
\* machines_remaining of get_allocation_summary is that number of machines less the
\* number of Allocations
C26_AllocatedPrefixAndCounts ==
    /\ \A a \in Range(allocator.allocations), u \in Range(allocator.unallocated_districts) :
          PlaceOf(a.district_id) < PlaceOf(u.district_id)
    /\ RunFinished =>
          Len(allocator.allocations) = Min(Len(allocator.predictions), apc.available0)
    /\ asummary # <<>> =>
          asummary[1].machines_remaining = apc.available0 - Len(allocator.allocations)

\* a run that began with a machine available and ran out of machines has returned,
\* and its summary has been taken
C26_Witness ==
    /\ RunFinished
    /\ apc.available0 >= 1
    /\ allocator.allocations # <<>>
    /\ allocator.unallocated_districts # <<>>
    /\ asummary # <<>>

(***************************************************************************)
(* Repeated assignment (checked under SpecSchedProjections)                *)
(***************************************************************************)

\* the Schedules that carry the id of a cluster
SchedulesInto(cluster) ==
    {i \in 1..Len(scheduler.schedules) : scheduler.schedules[i].cluster_id = cluster.id}

\* C27 as claimed: after create_clusters and one or more calls of
\* assign_farmers_to_clusters the farmers list of every cluster is as long as the
\* number of Schedules that carry the cluster's id, and the Gantt projection's
\* farmers_count is that number too
C27_AssignIdempotent ==
    spc = "assigned" =>
        /\ \A c \in Range(scheduler.clusters) :
              Len(c.farmers) = Cardinality(SchedulesInto(c))
        /\ projection.op = "gantt" =>
              \A k \in 1..Len(scheduler.clusters) :
                  projection.value[k].farmers_count =
                      Cardinality(SchedulesInto(scheduler.clusters[k]))

\* what the code does: self.schedules is emptied by every call, cluster.farmers is
\* not, so after n calls on the same clusters every farmer is listed n times
FarmersListedOncePerCall ==
    spc = "assigned" =>
        \A c \in Range(scheduler.clusters) :
            \E n \in 1..MaxAssigns : Len(c.farmers) = n * Cardinality(SchedulesInto(c))

(***************************************************************************)
(* The trend label (checked under SpecPredict)                             *)
(***************************************************************************)

\* the last step analysed a district that has enough readings
TrendCall ==
    /\ presult.op = "calculate_ndvi_decline_rate"
    /\ ~presult.value.error

\* the least-squares slope of the district the last step analysed
SlopeOfCall == PolyfitSlope(SortByDate(RowsOf(predictor.ndvi_data, presult.district_id)))

\* C28 as claimed: the trend label of calculate_ndvi_decline_rate agrees with the
\* sign of the slope for every slope, the epsilon boundaries included: a series of
\* negative slope is never labelled "increasing" and a series of positive slope is
\* never labelled "declining"
C28_TrendAgreesWithSign ==
    TrendCall =>
        /\ SlopeOfCall.num < 0 => presult.value.trend # "increasing"
        /\ SlopeOfCall.num > 0 => presult.value.trend # "declining"

\* what the code does: a series of positive slope is never labelled "declining", and
\* a series of negative slope is labelled "increasing" only at the slope -0.005,
\* which is neither below -0.005 nor of magnitude below 0.005
TrendAgreesOffTheBoundary ==
    TrendCall =>
        /\ SlopeOfCall.num > 0 => presult.value.trend # "declining"
        /\ (SlopeOfCall.num < 0 /\ presult.value.trend = "increasing") =>
              SlopeOfCall.num = -50 * SlopeOfCall.den

(***************************************************************************)
(* Urgency by status (checked under SpecPredict)                           *)
(***************************************************************************)

\* current NDVI at or under the threshold, zero days to harvest
IsReady(p) == p.status = "HARVEST_READY"

\* current NDVI over the threshold, no decline, no date
IsNotDeclining(p) == p.status = "NOT_DECLINING"

\* every Ready prediction of the list comes before every NotDeclining one
ReadyBeforeNotDeclining(ps) ==
    \A i, j \in 1..Len(ps) : (IsReady(ps[i]) /\ IsNotDeclining(ps[j])) => i < j

\* C29: every Ready prediction (current NDVI <= 0.40, 0 days) has priority_score >= 6
\* and every NotDeclining one (current NDVI > 0.40, decline rate >= 0, no date) has
\* priority_score <= 3, so that in the list predict_all_districts returns, and in
\* the order the allocator's constructor gives it, every Ready prediction comes
\* before every NotDeclining one
C29_UrgencyBoundedByStatus ==
    /\ \A p \in Returned :
          /\ IsReady(p) =>
                /\ p.current_ndvi <= HARVEST_THRESHOLD
                /\ p.days_until_harvest = <<0>>
                /\ p.priority_score >= 6
          /\ IsNotDeclining(p) =>
                /\ p.current_ndvi > HARVEST_THRESHOLD
                /\ p.ndvi_decline_rate >= 0
                /\ p.predicted_harvest_date = <<>>
                /\ p.priority_score <= 3
    /\ presult.op = "predict_all_districts" =>
          /\ ReadyBeforeNotDeclining(presult.value)
          /\ ReadyBeforeNotDeclining(SortByPriorityDesc(presult.value))

\* predict_all_districts returned a Ready prediction ahead of a NotDeclining one
\* whose district comes first in the data
C29_Witness ==
    /\ presult.op = "predict_all_districts"
    /\ Len(presult.value) = 2
    /\ IsReady(presult.value[1])
    /\ IsNotDeclining(presult.value[2])
    /\ predictor.ndvi_data[1].district_id = presult.value[2].district_id

(***************************************************************************)
(* The optimal date of a Schedule (checked under SpecSched)                *)
(***************************************************************************)

\* the predictions the scheduler was given for a district (one at most: district ids
\* are unique in the list)
PredictionsOf(district_id) ==
    {p \in Range(sinput.predictions) : p.district_id = district_id}

\* C30: with the clusters made by create_clusters from the scheduler's own
\* predictions, the optimal_harvest_date of every Schedule is the predicted harvest
\* date of the farmer's district, which has one; the date window_start + 2 days is
\* never used in its place
C30_OptimalDateIsPredictedDate ==
    spc = "assigned" =>
        \A i \in 1..Len(scheduler.schedules) :
            LET sch == scheduler.schedules[i]
            IN /\ PredictionsOf(sch.district_id) # {}
               /\ \A p \in PredictionsOf(sch.district_id) :
                     /\ p.predicted_harvest_date # <<>>
                     /\ sch.optimal_harvest_date = strptime(p.predicted_harvest_date[1])

\* a farmer was scheduled on the predicted date of its district, which is not the
\* day two days into the cluster's window
C30_Witness ==
    /\ spc = "assigned"
    /\ \E i \in 1..Len(scheduler.schedules), c \in Range(scheduler.clusters) :
          /\ c.id = scheduler.schedules[i].cluster_id
          /\ scheduler.schedules[i].optimal_harvest_date # FallbackDate(c)
          /\ \E p \in PredictionsOf(scheduler.schedules[i].district_id) :
                scheduler.schedules[i].optimal_harvest_date =
                    strptime(p.predicted_harvest_date[1])

====
